---- MODULE Spec2Model ----
(***************************************************************************)
(* A model of document-chat-rag: the Dexie store with its orphan sweep     *)
(* (src/src/lib/db.ts), the chunker of DocumentProcessor, the vector       *)
(* search of VectorSearchService and the LLM providers behind ChatService. *)
(***************************************************************************)
EXTENDS Integers, Sequences, FiniteSets, TLC

VARIABLES
    documents,      \* db.documents : document id -> record
    chunks,         \* db.chunks    : chunk id -> record (documentId, ...)
    embeddings,     \* db.embeddings: embedding id -> record (chunkId, ...)
    lastCall,       \* the store call made last, with what it found and targeted
    tasks,          \* concurrent callers of the store: position and locals
    nextDocId,      \* the next fresh document id (uuidv4 modelled as a counter)
    ckInput,        \* createChunks: the arguments of the call
    ckResult,       \* createChunks: the chunks returned by the call and by a repeat of it
    srInput,        \* searchSimilarChunks: the query vector and the limit
    srResult,       \* searchSimilarChunks: who answered, and the chunks returned
    localStorage,   \* window.localStorage: the items ChatService reads and writes
    llmProvider,    \* ChatService.llmProvider: the provider object, or none
    activeProvider, \* ChatService.activeProvider
    availableModels,\* ChatService.availableModels
    llmCall,        \* the ChatService call that ended last, with its outcome; none once
                    \* a later call has begun
    chatService,    \* the fields of the ChatService of lib/chatService.ts
    pending,        \* the ChatService call in progress: where it waits, its locals
    batch,          \* FileUploader: the files, the loop of processFiles, its lists
    encoder,        \* VectorSearchService: the model, and the callers awaiting it
    run             \* one processFile run: its file, position, reports and locals

storeVars == <<documents, chunks, embeddings, lastCall>>
concVars  == <<tasks, nextDocId>>
chunkVars == <<ckInput, ckResult>>
searchVars == <<srInput, srResult>>
llmVars   == <<localStorage, llmProvider, activeProvider, availableModels, llmCall,
               chatService, pending>>
runVars   == <<batch, encoder, run>>
vars      == <<documents, chunks, embeddings, lastCall, tasks, nextDocId,
               ckInput, ckResult, srInput, srResult,
               localStorage, llmProvider, activeProvider, availableModels, llmCall,
               chatService, pending, batch, encoder, run>>

----------------------------------------------------------------------------
(* Bounds of the store model *)

MaxDocs   == 2
MaxChunks == 2
MaxEmbs   == 2

DocIds   == 1..MaxDocs
ChunkIds == 1..MaxChunks
EmbIds   == 1..MaxEmbs

----------------------------------------------------------------------------
(* Dexie tables as functions from primary key to record *)

EmptyTable == [k \in {} |-> k]

\* Table.put / Table.bulkPut: insert or replace by primary key
BulkPut(table, records) ==
    [k \in DOMAIN table \cup DOMAIN records |->
        IF k \in DOMAIN records THEN records[k] ELSE table[k]]

\* Table.delete / Table.bulkDelete: absent keys are ignored
BulkDelete(table, keys) ==
    [k \in DOMAIN table \ keys |-> table[k]]

\* toCollection().primaryKeys()
PrimaryKeys(table) == DOMAIN table

\* every table over the keys Keys with records from Recs
Tables(Keys, Recs) == UNION {[K -> Recs] : K \in SUBSET Keys}

----------------------------------------------------------------------------
(* removeOrphanedChunksAndEmbeddings, read by read *)

\* chunks.filter(chunk => !documentIds.includes(chunk.documentId)), mapped to ids
MutOrphanedChunkIds(documentIds, chs) == {}

OrphanedChunkIds(documentIds, chs) ==
    {c \in DOMAIN chs : chs[c].documentId \notin documentIds}

\* embeddings.filter(embedding => !allChunkIds.includes(embedding.chunkId)), mapped to ids
MutOrphanedEmbeddingIds(allChunkIds, embs) == {}

OrphanedEmbeddingIds(allChunkIds, embs) ==
    {e \in DOMAIN embs : embs[e].chunkId \notin allChunkIds}

ChunksOf(d, chs) == {c \in DOMAIN chs : chs[c].documentId = d}
EmbeddingsOf(cs, embs) == {e \in DOMAIN embs : embs[e].chunkId \in cs}

----------------------------------------------------------------------------
(* Callers of the store: every await of a store call is a point where       *)
(* another caller's step may run.                                            *)

MaxFiles == 2
ChunksPerDoc == 1

Tasks == {"t1", "t2"}

IdleTask ==
    [pc |-> "idle", ret |-> "idle", documentId |-> 0,
     documentIds |-> {}, orphanedChunkIds |-> {},
     allChunkIds |-> {}, orphanedEmbeddingIds |-> {}]

\* ids of the chunks createChunks returns for document d, and of their embeddings
NewChunkIds(d) == {(d - 1) * ChunksPerDoc + k : k \in 1..ChunksPerDoc}

\* task t's own write is done: its sweep starts, and `ret` is where it goes after
EnterSweep(t, d, ret) ==
    tasks' = [tasks EXCEPT ![t] = [IdleTask EXCEPT !.pc = "sweep.documentIds",
                                                   !.ret = ret, !.documentId = d]]

\* processFile: uuidv4(), then addDocument's documents.put
ProcessFileAddDocument(t) ==
    /\ tasks[t].pc = "idle"
    /\ nextDocId <= MaxFiles
    /\ documents' = BulkPut(documents, [k \in {nextDocId} |-> [id |-> nextDocId]])
    /\ nextDocId' = nextDocId + 1
    /\ EnterSweep(t, nextDocId, "addChunks")
    /\ UNCHANGED <<chunks, embeddings, lastCall, chunkVars, searchVars, llmVars, runVars>>

\* processFile: createChunks, then addChunks' chunks.bulkPut
ProcessFileAddChunks(t) ==
    /\ tasks[t].pc = "addChunks"
    /\ chunks' = BulkPut(chunks,
                    [c \in NewChunkIds(tasks[t].documentId) |->
                        [documentId |-> tasks[t].documentId]])
    /\ EnterSweep(t, tasks[t].documentId, "addEmbeddings")
    /\ UNCHANGED <<documents, embeddings, lastCall, nextDocId, chunkVars, searchVars, llmVars, runVars>>

\* processFile: one embedding per chunk, then addEmbeddings' embeddings.bulkPut
ProcessFileAddEmbeddings(t) ==
    /\ tasks[t].pc = "addEmbeddings"
    /\ embeddings' = BulkPut(embeddings,
                    [e \in NewChunkIds(tasks[t].documentId) |-> [chunkId |-> e]])
    /\ EnterSweep(t, tasks[t].documentId, "idle")
    /\ UNCHANGED <<documents, chunks, lastCall, nextDocId, chunkVars, searchVars, llmVars, runVars>>

\* removeDocument: documents.delete
RemoveDocumentDelete(t, d) ==
    /\ tasks[t].pc = "idle"
    /\ documents' = BulkDelete(documents, {d})
    /\ EnterSweep(t, d, "idle")
    /\ UNCHANGED <<chunks, embeddings, lastCall, nextDocId, chunkVars, searchVars, llmVars, runVars>>

\* const documentIds = await this.documents.toCollection().primaryKeys()
SweepDocumentIds(t) ==
    /\ tasks[t].pc = "sweep.documentIds"
    /\ tasks' = [tasks EXCEPT ![t].documentIds = PrimaryKeys(documents),
                              ![t].pc = "sweep.orphanedChunks"]
    /\ UNCHANGED <<storeVars, nextDocId, chunkVars, searchVars, llmVars, runVars>>

\* const orphanedChunks = await this.chunks.filter(...).toArray()
SweepOrphanedChunks(t) ==
    /\ tasks[t].pc = "sweep.orphanedChunks"
    /\ tasks' = [tasks EXCEPT
                    ![t].orphanedChunkIds = OrphanedChunkIds(tasks[t].documentIds, chunks),
                    ![t].pc = "sweep.bulkDeleteChunks"]
    /\ UNCHANGED <<storeVars, nextDocId, chunkVars, searchVars, llmVars, runVars>>

\* await this.chunks.bulkDelete(orphanedChunkIds)
MutSweepBulkDeleteChunks(t) ==
    /\ tasks[t].pc = "sweep.bulkDeleteChunks"
    /\ tasks' = [tasks EXCEPT ![t].pc = "sweep.allChunkIds"]
    /\ UNCHANGED <<storeVars, nextDocId, chunkVars, searchVars, llmVars, runVars>>

SweepBulkDeleteChunks(t) ==
    /\ tasks[t].pc = "sweep.bulkDeleteChunks"
    /\ chunks' = BulkDelete(chunks, tasks[t].orphanedChunkIds)
    /\ tasks' = [tasks EXCEPT ![t].pc = "sweep.allChunkIds"]
    /\ UNCHANGED <<documents, embeddings, lastCall, nextDocId, chunkVars, searchVars, llmVars, runVars>>

\* const allChunkIds = await this.chunks.toCollection().primaryKeys()
SweepAllChunkIds(t) ==
    /\ tasks[t].pc = "sweep.allChunkIds"
    /\ tasks' = [tasks EXCEPT ![t].allChunkIds = PrimaryKeys(chunks),
                              ![t].pc = "sweep.orphanedEmbeddings"]
    /\ UNCHANGED <<storeVars, nextDocId, chunkVars, searchVars, llmVars, runVars>>

\* const orphanedEmbeddings = await this.embeddings.filter(...).toArray()
SweepOrphanedEmbeddings(t) ==
    /\ tasks[t].pc = "sweep.orphanedEmbeddings"
    /\ tasks' = [tasks EXCEPT
                    ![t].orphanedEmbeddingIds =
                        OrphanedEmbeddingIds(tasks[t].allChunkIds, embeddings),
                    ![t].pc = "sweep.bulkDeleteEmbeddings"]
    /\ UNCHANGED <<storeVars, nextDocId, chunkVars, searchVars, llmVars, runVars>>

\* await this.embeddings.bulkDelete(orphanedEmbeddingIds); the call returns
SweepBulkDeleteEmbeddings(t) ==
    /\ tasks[t].pc = "sweep.bulkDeleteEmbeddings"
    /\ embeddings' = BulkDelete(embeddings, tasks[t].orphanedEmbeddingIds)
    /\ tasks' = [tasks EXCEPT ![t] = [IdleTask EXCEPT !.pc = tasks[t].ret,
                                                      !.documentId = tasks[t].documentId]]
    /\ UNCHANGED <<documents, chunks, lastCall, nextDocId, chunkVars, searchVars, llmVars, runVars>>

----------------------------------------------------------------------------
(* The mutating store calls with any arguments.  Each action is the call up *)
(* to its own write; the sweep steps above are the rest of the call.        *)

\* the caller of the specifications in which store calls do not overlap
Caller == "t1"

\* every store call made has returned
NoCallInProgress == \A t \in Tasks : tasks[t].pc = "idle"

\* what lastCall remembers of a call made now: the tables as the call found
\* them and the keys of the records it puts or deletes itself
Called(op, d, targets) ==
    [op |-> op, documentId |-> d, targets |-> targets,
     before |-> [documents |-> documents, chunks |-> chunks,
                 embeddings |-> embeddings]]

NoStoreCall ==
    [op |-> "none", documentId |-> 0, targets |-> {},
     before |-> [documents |-> EmptyTable, chunks |-> EmptyTable,
                 embeddings |-> EmptyTable]]

\* addDocument: await this.documents.put({...})
AddDocument(t, document) ==
    /\ tasks[t].pc = "idle"
    /\ documents' = BulkPut(documents, [k \in {document.id} |-> document])
    /\ EnterSweep(t, document.id, "idle")
    /\ lastCall' = Called("addDocument", document.id, {document.id})
    /\ UNCHANGED <<chunks, embeddings, nextDocId, chunkVars, searchVars, llmVars, runVars>>

\* addChunks: await this.chunks.bulkPut(chunks)
AddChunks(t, records) ==
    /\ tasks[t].pc = "idle"
    /\ chunks' = BulkPut(chunks, records)
    /\ EnterSweep(t, 0, "idle")
    /\ lastCall' = Called("addChunks", 0, DOMAIN records)
    /\ UNCHANGED <<documents, embeddings, nextDocId, chunkVars, searchVars, llmVars, runVars>>

\* addEmbeddings: await this.embeddings.bulkPut(embeddings)
AddEmbeddings(t, records) ==
    /\ tasks[t].pc = "idle"
    /\ embeddings' = BulkPut(embeddings, records)
    /\ EnterSweep(t, 0, "idle")
    /\ lastCall' = Called("addEmbeddings", 0, DOMAIN records)
    /\ UNCHANGED <<documents, chunks, nextDocId, chunkVars, searchVars, llmVars, runVars>>

\* removeDocument: await this.documents.delete(documentId)
MutRemoveDocument(t, d) ==
    /\ tasks[t].pc = "idle"
    /\ documents' = BulkDelete(documents, {d, d + 1})
    /\ EnterSweep(t, d, "idle")
    /\ lastCall' = Called("removeDocument", d, {d})
    /\ UNCHANGED <<chunks, embeddings, nextDocId, chunkVars, searchVars, llmVars, runVars>>

RemoveDocument(t, d) ==
    /\ tasks[t].pc = "idle"
    /\ documents' = BulkDelete(documents, {d})
    /\ EnterSweep(t, d, "idle")
    /\ lastCall' = Called("removeDocument", d, {d})
    /\ UNCHANGED <<chunks, embeddings, nextDocId, chunkVars, searchVars, llmVars, runVars>>

----------------------------------------------------------------------------
(* DocumentProcessor.createChunks.  A text is a sequence of runs: n copies  *)
(* of one character class.  "a" is a letter, "sp" a blank, "nl" a newline,   *)
(* "dot" one of . ! ?, and a "page" run is one page marker `Page <i>:`.      *)

MinParagraphLength == 10
MinChunkCount      == 5
DensifyLength      == 1000
SentenceGroupCap   == 500
PageMarkerLength   == 7
PlaceholderLength  == 29

Run(ch, n) == [ch |-> ch, n |-> n]

IsWhitespace(r) == r.ch \in {"sp", "nl"}
IsTerminator(r) == r.ch = "dot"
IsPageMarker(r) == r.ch = "page"

\* String.length
RECURSIVE TextLength(_)
TextLength(t) == IF t = <<>> THEN 0 ELSE Head(t).n + TextLength(Tail(t))

RECURSIVE TrimStart(_)
TrimStart(t) ==
    IF t # <<>> /\ IsWhitespace(Head(t)) THEN TrimStart(Tail(t)) ELSE t

RECURSIVE TrimEnd(_)
TrimEnd(t) ==
    IF t # <<>> /\ IsWhitespace(t[Len(t)]) THEN TrimEnd(SubSeq(t, 1, Len(t) - 1)) ELSE t

\* String.trim
Trim(t) == TrimEnd(TrimStart(t))

\* the last run of the whitespace stretch that starts at run i
RECURSIVE StretchEnd(_, _)
StretchEnd(t, i) ==
    IF i < Len(t) /\ IsWhitespace(t[i + 1]) THEN StretchEnd(t, i + 1) ELSE i

\* content.split(/\n\s*\n/): a whitespace stretch with two newlines or more is
\* cut from its first newline to its last; blanks before and after stay
RECURSIVE SplitParagraphsFrom(_, _, _, _)
SplitParagraphsFrom(t, i, cur, acc) ==
    IF i > Len(t) THEN Append(acc, cur)
    ELSE IF ~IsWhitespace(t[i]) THEN SplitParagraphsFrom(t, i + 1, Append(cur, t[i]), acc)
    ELSE LET j == StretchEnd(t, i)
             nls == {k \in i..j : t[k].ch = "nl"}
             newlines == TextLength(SelectSeq(SubSeq(t, i, j), LAMBDA r : r.ch = "nl"))
         IN  IF newlines >= 2
             THEN LET f == CHOOSE k \in nls : \A m \in nls : k <= m
                      l == CHOOSE k \in nls : \A m \in nls : k >= m
                  IN  SplitParagraphsFrom(t, j + 1, SubSeq(t, l + 1, j),
                                          Append(acc, cur \o SubSeq(t, i, f - 1)))
             ELSE SplitParagraphsFrom(t, j + 1, cur \o SubSeq(t, i, j), acc)

SplitParagraphs(t) == SplitParagraphsFrom(t, 1, <<>>, <<>>)

\* content.split(/Page \d+:/)
RECURSIVE SplitPagesFrom(_, _, _)
SplitPagesFrom(t, cur, acc) ==
    IF t = <<>> THEN Append(acc, cur)
    ELSE IF IsPageMarker(Head(t)) THEN SplitPagesFrom(Tail(t), <<>>, Append(acc, cur))
    ELSE SplitPagesFrom(Tail(t), Append(cur, Head(t)), acc)

SplitPages(t) == SplitPagesFrom(t, <<>>, <<>>)

\* content.match(/[^.!?]+[.!?]+/g) || []
RECURSIVE MatchSentencesFrom(_, _, _, _)
MatchSentencesFrom(t, body, ender, acc) ==
    IF t = <<>> THEN (IF ender # <<>> THEN Append(acc, body \o ender) ELSE acc)
    ELSE IF IsTerminator(Head(t))
         THEN IF body = <<>> THEN MatchSentencesFrom(Tail(t), body, ender, acc)
              ELSE MatchSentencesFrom(Tail(t), body, Append(ender, Head(t)), acc)
         ELSE IF ender # <<>>
              THEN MatchSentencesFrom(Tail(t), <<Head(t)>>, <<>>, Append(acc, body \o ender))
              ELSE MatchSentencesFrom(Tail(t), Append(body, Head(t)), ender, acc)

MatchSentences(t) == MatchSentencesFrom(t, <<>>, <<>>, <<>>)

\* the paragraph tier: `if (paragraph.trim().length < 10) return`
KeepsParagraph(paragraph) == TextLength(Trim(paragraph)) >= MinParagraphLength

ParagraphChunks(paragraphs, pageNumber) ==
    LET kept == SelectSeq(paragraphs, KeepsParagraph)
    IN  [i \in 1..Len(kept) |->
            [content |-> Trim(kept[i]), chunkType |-> "paragraph",
             pageNumber |-> pageNumber]]

\* the pdf tier: pages.forEach((pageContent, pageIndex) => ...)
RECURSIVE PdfChunks(_, _)
PdfChunks(pages, pageIndex) ==
    IF pages = <<>> THEN <<>>
    ELSE (IF Trim(Head(pages)) = <<>> THEN <<>>
          ELSE ParagraphChunks(SplitParagraphs(Head(pages)), pageIndex))
         \o PdfChunks(Tail(pages), pageIndex + 1)

\* sentences.forEach: the contents of currentChunk at each push, then the last
RECURSIVE GroupSentences(_, _, _)
GroupSentences(sentences, currentChunk, groups) ==
    IF sentences = <<>>
    THEN (IF currentChunk # <<>> THEN Append(groups, currentChunk) ELSE groups)
    ELSE IF TextLength(currentChunk) + TextLength(Head(sentences)) > SentenceGroupCap
         THEN GroupSentences(Tail(sentences), Head(sentences),
                  IF currentChunk # <<>> THEN Append(groups, currentChunk) ELSE groups)
         ELSE GroupSentences(Tail(sentences),
                  currentChunk \o <<Run("sp", 1)>> \o Head(sentences), groups)

SentenceGroupChunks(content) ==
    LET groups == GroupSentences(MatchSentences(content), <<>>, <<>>)
    IN  [i \in 1..Len(groups) |->
            [content |-> Trim(groups[i]), chunkType |-> "sentence-group",
             pageNumber |-> "none"]]

\* "[No extractable text content]"
Placeholder == <<Run("placeholder", PlaceholderLength)>>

\* `if (chunks.length === 0)`: the one fallback chunk
MutFallbackChunks(content, found) == found

FallbackChunks(content, found) ==
    IF Len(found) = 0
    THEN <<[content |-> IF Trim(content) # <<>> THEN Trim(content) ELSE Placeholder,
            chunkType |-> "fallback", pageNumber |-> "none"]>>
    ELSE found

\* createChunks(documentId, content, fileType); uuid0 is the number of uuids drawn
\* before the call, and the position metadata is left out
createChunks(documentId, content, fileType, uuid0) ==
    LET paragraphs == IF fileType = "pdf" THEN PdfChunks(SplitPages(content), 0)
                      ELSE ParagraphChunks(SplitParagraphs(content), "none")
        densified  == IF Len(paragraphs) < MinChunkCount
                         /\ TextLength(content) > DensifyLength
                      THEN paragraphs \o SentenceGroupChunks(content)
                      ELSE paragraphs
        all        == FallbackChunks(content, densified)
    IN  [i \in 1..Len(all) |->
            [id |-> uuid0 + i, documentId |-> documentId, content |-> all[i].content,
             chunkType |-> all[i].chunkType, pageNumber |-> all[i].pageNumber]]

(* The texts the chunker is applied to: up to MaxFragments fragments in a row *)

MaxFragments == 3

FiveParagraphs ==
    <<Run("a", 10), Run("nl", 2), Run("a", 10), Run("nl", 2), Run("a", 10),
      Run("nl", 2), Run("a", 10), Run("nl", 2), Run("a", 10)>>

Fragments ==
    { <<Run("a", 9)>>, <<Run("a", 10)>>, <<Run("sp", 1)>>, <<Run("sp", 600)>>,
      <<Run("nl", 1)>>, <<Run("nl", 2)>>,
      <<Run("a", 1), Run("dot", 1)>>, <<Run("a", 200), Run("dot", 1)>>,
      <<Run("a", 600), Run("dot", 1)>>,
      <<Run("page", PageMarkerLength)>>, FiveParagraphs }

RECURSIVE Texts(_)
Texts(n) ==
    IF n = 0 THEN {<<>>}
    ELSE LET shorter == Texts(n - 1)
         IN  shorter \cup {t \o f : t \in shorter, f \in Fragments}

FileTypes == {"pdf", "text"}

CreateChunksCall ==
    /\ ~ckResult.returned
    /\ ckResult' = [ckResult EXCEPT
                       !.returned = TRUE,
                       !.chunks = createChunks(ckInput.documentId, ckInput.content,
                                               ckInput.fileType, 0)]
    /\ UNCHANGED <<ckInput, storeVars, concVars, searchVars, llmVars, runVars>>

\* a second call with the same arguments, after the uuids of the first were drawn
CreateChunksAgain ==
    /\ ckResult.returned
    /\ ~ckResult.repeated
    /\ ckResult' = [ckResult EXCEPT
                       !.repeated = TRUE,
                       !.again = createChunks(ckInput.documentId, ckInput.content,
                                              ckInput.fileType, Len(ckResult.chunks))]
    /\ UNCHANGED <<ckInput, storeVars, concVars, searchVars, llmVars, runVars>>

----------------------------------------------------------------------------
(* Similarity search: VectorSearchService.searchSimilarChunks and the        *)
(* placeholder Database.searchSimilarChunks                                  *)

DefaultLimit == 5
MaxLimit     == 2

\* the vectors of the model, with small whole components: two of them are
\* parallel, and the zero vector has no cosine similarity (0 / 0)
Vectors      == {<<1, 0>>, <<1, 1>>, <<3, 3>>, <<0, 0>>}
QueryVectors == {<<1, 0>>, <<1, 1>>}

----------------------------------------------------------------------------
(* The Numbers of cosineSimilarity are IEEE 754 binary64 values.  Naturals  *)
(* of any size are kept as little-endian sequences of limbs below 2^13,     *)
(* without a leading zero limb; a finite Number is sign * m * 2^e with a    *)
(* mantissa m of 53 bits.                                                   *)

Limb == 2^13

Max(a, b) == IF a < b THEN b ELSE a

RECURSIVE Strip(_)
Strip(digits) ==
    IF digits = <<>> THEN <<>>
    ELSE IF digits[Len(digits)] = 0 THEN Strip(SubSeq(digits, 1, Len(digits) - 1))
    ELSE digits

RECURSIVE Carried(_, _)
Carried(digits, carry) ==
    IF digits = <<>>
    THEN IF carry = 0 THEN <<>> ELSE <<carry % Limb>> \o Carried(<<>>, carry \div Limb)
    ELSE <<(Head(digits) + carry) % Limb>>
         \o Carried(Tail(digits), (Head(digits) + carry) \div Limb)

\* the natural n as limbs
Natural(n) == Strip(Carried(<<n>>, 0))

DigitAt(a, i) == IF i \in 1..Len(a) THEN a[i] ELSE 0

Plus(a, b) ==
    Strip(Carried([i \in 1..Max(Len(a), Len(b)) |-> DigitAt(a, i) + DigitAt(b, i)], 0))

RECURSIVE Convolved(_, _, _, _)
Convolved(a, b, k, i) ==
    IF i > Len(a) THEN 0
    ELSE a[i] * DigitAt(b, k + 1 - i) + Convolved(a, b, k, i + 1)

Times(a, b) ==
    IF a = <<>> \/ b = <<>> THEN <<>>
    ELSE Strip(Carried([k \in 1..(Len(a) + Len(b) - 1) |-> Convolved(a, b, k, 1)], 0))

RECURSIVE LessEqFrom(_, _, _)
LessEqFrom(a, b, i) ==
    IF i = 0 THEN TRUE
    ELSE IF a[i] # b[i] THEN a[i] < b[i]
    ELSE LessEqFrom(a, b, i - 1)

LessEq(a, b) ==
    \/ Len(a) < Len(b)
    \/ Len(a) = Len(b) /\ LessEqFrom(a, b, Len(a))

Pow2(k) == [i \in 1..(k \div 13 + 1) |-> IF i = k \div 13 + 1 THEN 2^(k % 13) ELSE 0]

RECURSIVE SmallBitLength(_)
SmallBitLength(n) == IF n = 0 THEN 0 ELSE 1 + SmallBitLength(n \div 2)

BitLength(a) ==
    IF a = <<>> THEN 0 ELSE 13 * (Len(a) - 1) + SmallBitLength(a[Len(a)])

\* the greatest q below 2^(i+1), above the bits already in q, with q * b <= a
RECURSIVE QuotientFrom(_, _, _, _)
QuotientFrom(a, b, q, i) ==
    IF i < 0 THEN q
    ELSE LET c    == Plus(q, Pow2(i))
             next == IF LessEq(Times(c, b), a) THEN c ELSE q
         IN  IF next = q THEN QuotientFrom(a, b, q, i - 1)
             ELSE QuotientFrom(a, b, next, i - 1)

\* floor(a / b), b > 0
Quotient(a, b) == QuotientFrom(a, b, <<>>, BitLength(a) - BitLength(b))

RECURSIVE RootFrom(_, _, _)
RootFrom(a, r, i) ==
    IF i < 0 THEN r
    ELSE LET c    == Plus(r, Pow2(i))
             next == IF LessEq(Times(c, c), a) THEN c ELSE r
         IN  IF next = r THEN RootFrom(a, r, i - 1)
             ELSE RootFrom(a, next, i - 1)

\* floor(sqrt(a))
Root(a) == RootFrom(a, <<>>, BitLength(a) \div 2)

\* floor(a / 2^d)
ShiftRight(a, d) ==
    LET rest == SubSeq(a, d \div 13 + 1, Len(a))
        bits == d % 13
    IN  Strip([i \in 1..Len(rest) |->
                 rest[i] \div 2^bits + (DigitAt(rest, i + 1) % 2^bits) * 2^(13 - bits)])

NaN == [nan |-> TRUE, sign |-> 0, m |-> <<>>, e |-> 0]
Zero == [nan |-> FALSE, sign |-> 0, m |-> <<>>, e |-> 0]

\* round to nearest, ties to even: the Number nearest to sign * x * 2^e, where
\* x is q (of 55 bits or more) when exact, and lies strictly between q and
\* q + 1 otherwise
Rounded(sign, q, exact, e) ==
    LET drop == BitLength(q) - 53
        kept == ShiftRight(q, drop)
        half == Plus(Times(kept, Pow2(drop)), Pow2(drop - 1))
        up   == IF q = half THEN ~exact \/ kept[1] % 2 = 1 ELSE LessEq(half, q)
        m    == IF up THEN Plus(kept, Natural(1)) ELSE kept
    IN  IF BitLength(m) = 54
        THEN [nan |-> FALSE, sign |-> sign, m |-> Pow2(52), e |-> e + drop + 1]
        ELSE [nan |-> FALSE, sign |-> sign, m |-> m, e |-> e + drop]

\* the Number nearest to sign * (a / b) * 2^e, for naturals a > 0 and b > 0
Ratio(sign, a, b, e) ==
    LET k == 56 - (BitLength(a) - BitLength(b))
        n == IF k > 0 THEN Times(a, Pow2(k)) ELSE a
        d == IF k < 0 THEN Times(b, Pow2(-k)) ELSE b
        q == Quotient(n, d)
    IN  Rounded(sign, q, Times(q, d) = n, e - k)

\* Math.sqrt(n) of a whole number n >= 0
Sqrt(n) ==
    IF n = 0 THEN Zero
    ELSE LET a == Times(Natural(n), Pow2(112))
             r == Root(a)
         IN  Rounded(1, r, Times(r, r) = a, -56)

\* x * y of two finite Numbers
Product(x, y) ==
    IF x.sign = 0 \/ y.sign = 0 THEN Zero
    ELSE Ratio(x.sign * y.sign, Times(x.m, y.m), Natural(1), x.e + y.e)

\* n / y of a whole number n and a finite Number y: 0 / 0 is NaN
Divided(n, y) ==
    IF y.sign = 0 THEN NaN
    ELSE IF n = 0 THEN Zero
    ELSE Ratio((IF n < 0 THEN -1 ELSE 1) * y.sign,
               Natural(IF n < 0 THEN -n ELSE n), y.m, -y.e)

\* x > y of two Numbers; false when either is NaN
Greater(x, y) ==
    /\ ~x.nan /\ ~y.nan
    /\ IF x.sign # y.sign THEN x.sign > y.sign
       ELSE IF x.sign = 0 THEN FALSE
       ELSE IF x.sign = 1
            THEN x.e > y.e \/ (x.e = y.e /\ x.m # y.m /\ LessEq(y.m, x.m))
            ELSE y.e > x.e \/ (x.e = y.e /\ x.m # y.m /\ LessEq(x.m, y.m))

\* vecA.reduce((sum, a, idx) => sum + a * vecB[idx], 0), over the indexes of vecA
RECURSIVE DotProduct(_, _, _)
DotProduct(vecA, vecB, idx) ==
    IF idx > Len(vecA) THEN 0
    ELSE vecA[idx] * vecB[idx] + DotProduct(vecA, vecB, idx + 1)

\* cosineSimilarity: dotProduct / (magnitudeA * magnitudeB).  A component of
\* vecA past the end of vecB is multiplied by undefined, which gives NaN
cosineSimilarity(vecA, vecB) ==
    IF Len(vecA) > Len(vecB) THEN NaN
    ELSE LET dotProduct == DotProduct(vecA, vecB, 1)
             magnitudeA == Sqrt(DotProduct(vecA, vecA, 1))
             magnitudeB == Sqrt(DotProduct(vecB, vecB, 1))
         IN  Divided(dotProduct, Product(magnitudeA, magnitudeB))

\* cosineSimilarity over the vectors of the model, computed once
SimilarityTable ==
    [pair \in QueryVectors \X Vectors |-> cosineSimilarity(pair[1], pair[2])] @@ <<>>

\* this.cosineSimilarity(queryVector, embedding.vector)
Similarity(queryVector, vector) ==
    IF <<queryVector, vector>> \in DOMAIN SimilarityTable
    THEN SimilarityTable[<<queryVector, vector>>]
    ELSE cosineSimilarity(queryVector, vector)

\* const similarity = 0.5
PlaceholderSimilarity == Ratio(1, Natural(1), Natural(2), 0)

----------------------------------------------------------------------------
(* The two searches, read by read *)

\* Table.toArray(): the records in primary-key order, each with its key
RECURSIVE ToArrayFrom(_, _)
ToArrayFrom(table, keys) ==
    IF keys = {} THEN <<>>
    ELSE LET k == CHOOSE x \in keys : \A y \in keys : x <= y
         IN  <<[id |-> k, rec |-> table[k]]>> \o ToArrayFrom(table, keys \ {k})

ToArray(table) == ToArrayFrom(table, DOMAIN table)

\* Array.prototype.sort((a, b) => b.similarity - a.similarity), as V8 sorts an
\* array of fewer than 64 items: the run that starts the array is found and
\* reversed if it descends, and the items after it are inserted by binary
\* search.  A comparison that gives NaN counts as 0, so with a NaN similarity
\* among the items the order is not the descending one.

\* comparefn(x, y) < 0
ComesBefore(x, y) == Greater(x.similarity, y.similarity)

\* CountAndMakeRun: the last index of the run that starts at index 1
RECURSIVE RunEnd(_, _, _)
RunEnd(items, isDescending, idx) ==
    IF idx > Len(items) THEN Len(items)
    ELSE IF ComesBefore(items[idx], items[idx - 1]) = isDescending
         THEN RunEnd(items, isDescending, idx + 1)
         ELSE idx - 1

ReverseRange(items, runLength) ==
    [i \in 1..Len(items) |->
        IF i <= runLength THEN items[runLength + 1 - i] ELSE items[i]]

CountAndMakeRun(items) ==
    LET isDescending == ComesBefore(items[2], items[1])
        runLength    == RunEnd(items, isDescending, 3)
    IN  [runLength |-> runLength,
         items |-> IF isDescending THEN ReverseRange(items, runLength) ELSE items]

\* the binary search of BinaryInsertionSort: where pivot goes in items[left..right-1]
RECURSIVE InsertionPoint(_, _, _, _)
InsertionPoint(items, pivot, left, right) ==
    IF left >= right THEN left
    ELSE LET mid == left + (right - left) \div 2
         IN  IF ComesBefore(pivot, items[mid])
             THEN InsertionPoint(items, pivot, left, mid)
             ELSE InsertionPoint(items, pivot, mid + 1, right)

\* BinaryInsertionSort: items[1..start-1] is sorted, the others are inserted
RECURSIVE BinaryInsertionSort(_, _)
BinaryInsertionSort(items, start) ==
    IF start > Len(items) THEN items
    ELSE LET pivot == items[start]
             left  == InsertionPoint(items, pivot, 1, start)
         IN  BinaryInsertionSort(SubSeq(items, 1, left - 1) \o <<pivot>>
                                    \o SubSeq(items, left, start - 1)
                                    \o SubSeq(items, start + 1, Len(items)),
                                 start + 1)

SortBySimilarity(items) ==
    IF Len(items) < 2 THEN items
    ELSE LET made == CountAndMakeRun(items)
         IN  BinaryInsertionSort(made.items, made.runLength + 1)

\* Array.prototype.slice(0, limit), limit >= 0
MutSlice(items, limit) == items

Slice(items, limit) ==
    SubSeq(items, 1, IF limit < Len(items) THEN limit ELSE Len(items))

\* db.chunks.where('id').anyOf(chunkIds).toArray(): the stored chunks whose key
\* is one of chunkIds, in primary-key order whatever the order of chunkIds
AnyOf(table, chunkIds) ==
    ToArray([k \in DOMAIN table \cap chunkIds |-> table[k]])

ChunkRecords(rows) ==
    [i \in 1..Len(rows) |-> [id |-> rows[i].id, documentId |-> rows[i].rec.documentId]]

\* the embeddings searchSimilarChunks keeps of those it read: the similarities,
\* the sort, the slice and the map back to the embedding
TopEmbeddings(allEmbeddings, queryVector, limit) ==
    LET similarities == [i \in 1..Len(allEmbeddings) |->
                            [embedding |-> allEmbeddings[i],
                             similarity |->
                                Similarity(queryVector, allEmbeddings[i].rec.vector)]]
        sorted       == Slice(SortBySimilarity(similarities), limit)
    IN  [i \in 1..Len(sorted) |-> sorted[i].embedding]

\* Database.searchSimilarChunks: every similarity is the placeholder 0.5
Results(allEmbeddings, limit) ==
    LET sorted == Slice(SortBySimilarity(
                      [i \in 1..Len(allEmbeddings) |->
                          [embedding |-> allEmbeddings[i],
                           similarity |-> PlaceholderSimilarity]]), limit)
    IN  [i \in 1..Len(sorted) |-> sorted[i].embedding]

\* db.chunks.where('id').anyOf(chunkIds).toArray() for the embeddings kept
ChunksOfTop(topEmbeddings, chs) ==
    ChunkRecords(AnyOf(chs, {topEmbeddings[i].rec.chunkId : i \in 1..Len(topEmbeddings)}))

\* Promise.all(results.map(result => this.chunks.get(...))), then filter(Boolean)
ChunksGot(results, chs) ==
    LET found == SelectSeq(results, LAMBDA r : r.rec.chunkId \in DOMAIN chs)
    IN  [i \in 1..Len(found) |->
            [id |-> found[i].rec.chunkId,
             documentId |-> chs[found[i].rec.chunkId].documentId]]

\* no search made
NoSearch ==
    [by |-> "none", pc |-> "idle", read |-> EmptyTable, top |-> <<>>,
     chunks |-> <<>>, stored |-> {}]

\* VectorSearchService.searchSimilarChunks from the query's embedding on:
\* await this.db.embeddings.toArray(), then the work up to the read of the chunks
VectorSearchEmbeddings ==
    /\ srResult.pc = "idle"
    /\ srResult' = [NoSearch EXCEPT
                        !.by = "VectorSearchService", !.pc = "chunks",
                        !.read = embeddings,
                        !.top = TopEmbeddings(ToArray(embeddings), srInput.queryVector,
                                              srInput.limit)]
    /\ UNCHANGED <<srInput, storeVars, concVars, chunkVars, llmVars, runVars>>

\* await this.db.chunks.where('id').anyOf(chunkIds).toArray(); return chunks
VectorSearchChunks ==
    /\ srResult.by = "VectorSearchService"
    /\ srResult.pc = "chunks"
    /\ srResult' = [srResult EXCEPT !.pc = "returned",
                                    !.chunks = ChunksOfTop(srResult.top, chunks),
                                    !.stored = DOMAIN chunks]
    /\ UNCHANGED <<srInput, storeVars, concVars, chunkVars, llmVars, runVars>>

\* Database.searchSimilarChunks: await this.embeddings.toArray(), then the sort
DatabaseSearchEmbeddings ==
    /\ srResult.pc = "idle"
    /\ srResult' = [NoSearch EXCEPT
                        !.by = "Database", !.pc = "chunks",
                        !.read = embeddings,
                        !.top = Results(ToArray(embeddings), srInput.limit)]
    /\ UNCHANGED <<srInput, storeVars, concVars, chunkVars, llmVars, runVars>>

\* await Promise.all(...chunks.get...); return chunks.filter(Boolean)
DatabaseSearchChunks ==
    /\ srResult.by = "Database"
    /\ srResult.pc = "chunks"
    /\ srResult' = [srResult EXCEPT !.pc = "returned",
                                    !.chunks = ChunksGot(srResult.top, chunks),
                                    !.stored = DOMAIN chunks]
    /\ UNCHANGED <<srInput, storeVars, concVars, chunkVars, llmVars, runVars>>

----------------------------------------------------------------------------
(* The LLM providers (OpenAIProvider, GeminiProvider) and ChatService.       *)
(* A string the code builds or inspects is a sequence of pieces; "" is <<>>. *)
(* localStorage.getItem gives null for a missing item and the code tests     *)
(* only its truthiness, so a missing item is kept as the empty string.       *)

Gpt4o              == <<"gpt", "-4o">>
Gpt4Turbo          == <<"gpt", "-4-turbo">>
Gpt35Turbo         == <<"gpt", "-3.5-turbo">>
Gpt35TurboInstruct == <<"gpt", "-3.5-turbo-", "instruct">>
Gpt4VisionPreview  == <<"gpt", "-4", "-vision-", "preview">>
Whisper            == <<"whisper-1">>
Gemini15Flash      == <<"gemini-1.5-flash">>
Gemini15Pro        == <<"gemini-1.5-pro">>
Gemini10Pro        == <<"gemini-1.0-pro">>
ListedGeminiPro    == <<"models/", "gemini-1.5-pro">>
ListedEmbedding    == <<"models/", "embedding-001">>

\* String.prototype.includes for the needles the code looks for: the pieces of
\* a model id are cut so that a needle occurs in the id iff it is one of them
Includes(id, needle) == \E i \in 1..Len(id) : id[i] = needle

LLMModel(id, provider) == [id |-> id, provider |-> provider]

\* the filter of fetchModels: chat models only
IsChatModel(model) ==
    /\ Includes(model.id, "gpt")
    /\ ~Includes(model.id, "instruct")
    /\ ~Includes(model.id, "-vision-")
    /\ ~Includes(model.id, "ft-")

\* sort((a, b) => new Date(b.created).getTime() - new Date(a.created).getTime()):
\* stable, newest first
RECURSIVE InsertByCreated(_, _)
InsertByCreated(sorted, item) ==
    IF sorted = <<>> THEN <<item>>
    ELSE IF item.created > Head(sorted).created
         THEN <<item>> \o sorted
         ELSE <<Head(sorted)>> \o InsertByCreated(Tail(sorted), item)

RECURSIVE SortByCreated(_)
SortByCreated(items) ==
    IF items = <<>> THEN <<>>
    ELSE InsertByCreated(SortByCreated(SubSeq(items, 1, Len(items) - 1)),
                         items[Len(items)])

\* findIndex / splice / unshift: gpt-4o goes to the top if it is listed
MutFlagshipFirst(chatModels) == chatModels

FlagshipFirst(chatModels) ==
    LET found == {i \in 1..Len(chatModels) : chatModels[i].id = Gpt4o}
    IN  IF found = {} THEN chatModels
        ELSE LET gpt4oIndex == CHOOSE i \in found : \A j \in found : i <= j
             IN  <<chatModels[gpt4oIndex]>>
                    \o SubSeq(chatModels, 1, gpt4oIndex - 1)
                    \o SubSeq(chatModels, gpt4oIndex + 1, Len(chatModels))

OpenAIDefaultModels ==
    <<LLMModel(Gpt4o, "openai"), LLMModel(Gpt4Turbo, "openai"),
      LLMModel(Gpt35Turbo, "openai")>>

GeminiDefaultModels ==
    <<LLMModel(Gemini15Flash, "gemini"), LLMModel(Gemini15Pro, "gemini"),
      LLMModel(Gemini10Pro, "gemini")>>

\* what the models endpoint answers: fetch rejects, or resolves to a response
\* with a status (ok / statusText) and a body that parses as JSON or not, and
\* that holds the list (data.data / data.models) or not
ListingResponse(rejects, ok, parses, hasList, list) ==
    [rejects |-> rejects, ok |-> ok, parses |-> parses, hasList |-> hasList,
     list |-> list]

NoResponse == ListingResponse(FALSE, TRUE, TRUE, TRUE, <<>>)

OpenAIListings ==
    { <<>>,
      <<[id |-> Gpt35Turbo, created |-> 2], [id |-> Gpt4o, created |-> 1],
        [id |-> Gpt4Turbo, created |-> 3], [id |-> Whisper, created |-> 4]>>,
      <<[id |-> Gpt35TurboInstruct, created |-> 2],
        [id |-> Gpt4VisionPreview, created |-> 3],
        [id |-> Gpt4Turbo, created |-> 1], [id |-> Gpt35Turbo, created |-> 1]>> }

GeminiListings ==
    { <<>>,
      <<[name |-> ListedEmbedding, supportedGenerationMethods |-> {"embedContent"}],
        [name |-> ListedGeminiPro,
         supportedGenerationMethods |-> {"generateContent", "countTokens"}],
        [name |-> Gemini10Pro, supportedGenerationMethods |-> {}]>> }

ListingResponses(lists) ==
    { ListingResponse(TRUE, FALSE, FALSE, FALSE, <<>>),
      ListingResponse(FALSE, FALSE, TRUE, FALSE, <<>>),
      ListingResponse(FALSE, TRUE, FALSE, FALSE, <<>>),
      ListingResponse(FALSE, TRUE, TRUE, FALSE, <<>>) }
    \cup { ListingResponse(FALSE, TRUE, TRUE, TRUE, list) : list \in lists }

\* the try block of fetchModels throws: fetch rejected, !response.ok,
\* response.json() rejected, or the list is undefined
ListingThrows(response) ==
    \/ response.rejects
    \/ ~response.ok
    \/ ~response.parses
    \/ ~response.hasList

\* OpenAIProvider.fetchModels
OpenAIFetchModels(response) ==
    IF ListingThrows(response)
    THEN [raised |-> FALSE, models |-> OpenAIDefaultModels]
    ELSE LET chatModels == SortByCreated(SelectSeq(response.list, IsChatModel))
         IN  [raised |-> FALSE,
              models |-> FlagshipFirst([i \in 1..Len(chatModels) |->
                                          LLMModel(chatModels[i].id, "openai")])]

\* the catch block of fetchModels lets the error through
MutGeminiFetchModels(response) ==
    IF ListingThrows(response)
    THEN [raised |-> TRUE, models |-> <<>>]
    ELSE LET supportedModels ==
                SelectSeq(response.list,
                          LAMBDA model :
                              "generateContent" \in model.supportedGenerationMethods)
         IN  [raised |-> FALSE,
              models |-> [i \in 1..Len(supportedModels) |->
                            LLMModel(supportedModels[i].name, "gemini")]]

\* GeminiProvider.fetchModels
GeminiFetchModels(response) ==
    IF ListingThrows(response)
    THEN [raised |-> FALSE, models |-> GeminiDefaultModels]
    ELSE LET supportedModels ==
                SelectSeq(response.list,
                          LAMBDA model :
                              "generateContent" \in model.supportedGenerationMethods)
         IN  [raised |-> FALSE,
              models |-> [i \in 1..Len(supportedModels) |->
                            LLMModel(supportedModels[i].name, "gemini")]]

\* what the chat completions endpoint answers: as for the listing, with the
\* error.message of an error body ("" when it has none), and for an OK body
\* whether choices[0].message is there and whether it has a content
ChatResponse(rejects, error, ok, statusText, parses, thrown, errorMessage, hasChoice, hasContent, content) ==
    [rejects |-> rejects, error |-> error, ok |-> ok, statusText |-> statusText,
     parses |-> parses, thrown |-> thrown, errorMessage |-> errorMessage,
     hasChoice |-> hasChoice, hasContent |-> hasContent, content |-> content]

\* the message of the SyntaxError response.json() rejects with on a body that is
\* not JSON, and of the TypeError the read of data.choices[0].message throws on
\* a body without a choice: the wording is the engine's and differs by engine
\* and version
JsonSyntaxErrors ==
    {"Unexpected token < in JSON at position 0",
     "Unexpected token '<', \"<html>\" is not valid JSON"}
UndefinedTypeErrors ==
    {"Cannot read properties of undefined (reading 'message')",
     "Cannot read property 'message' of undefined"}

ChatResponses ==
    { ChatResponse(TRUE, "Failed to fetch", FALSE, "", FALSE, "", "", FALSE, FALSE, ""),
      ChatResponse(FALSE, "", FALSE, "Unauthorized", TRUE, "",
                   "Incorrect API key provided", FALSE, FALSE, ""),
      ChatResponse(FALSE, "", FALSE, "Too Many Requests", TRUE, "", "", FALSE, FALSE, ""),
      ChatResponse(FALSE, "", FALSE, "", TRUE, "", "", FALSE, FALSE, ""),
      ChatResponse(FALSE, "", TRUE, "OK", TRUE, "", "", TRUE, FALSE, ""),
      ChatResponse(FALSE, "", TRUE, "OK", TRUE, "", "", TRUE, TRUE, "the answer") }
    \cup { ChatResponse(FALSE, "", FALSE, "Bad Gateway", FALSE, thrown, "", FALSE, FALSE, "") :
             thrown \in JsonSyntaxErrors }
    \cup { ChatResponse(FALSE, "", TRUE, "OK", FALSE, thrown, "", FALSE, FALSE, "") :
             thrown \in JsonSyntaxErrors }
    \cup { ChatResponse(FALSE, "", TRUE, "OK", TRUE, thrown, "", FALSE, FALSE, "") :
             thrown \in UndefinedTypeErrors }

\* the try block of OpenAIProvider.generateAnswer: the error it throws, or
\* the value it returns (undefined when the message has no content)
OpenAIGenerateAttempt(response) ==
    IF response.rejects
    THEN [threw |-> TRUE, error |-> <<response.error>>, defined |-> FALSE, value |-> <<>>]
    ELSE IF ~response.ok /\ ~response.parses
    THEN [threw |-> TRUE, error |-> <<response.thrown>>, defined |-> FALSE, value |-> <<>>]
    ELSE IF ~response.ok
    THEN [threw |-> TRUE,
          error |-> <<"OpenAI API error: ",
                      IF response.errorMessage # "" THEN response.errorMessage
                      ELSE response.statusText>>,
          defined |-> FALSE, value |-> <<>>]
    ELSE IF ~response.parses
    THEN [threw |-> TRUE, error |-> <<response.thrown>>, defined |-> FALSE, value |-> <<>>]
    ELSE IF ~response.hasChoice
    THEN [threw |-> TRUE, error |-> <<response.thrown>>, defined |-> FALSE, value |-> <<>>]
    ELSE [threw |-> FALSE, error |-> <<>>, defined |-> response.hasContent,
          value |-> IF response.hasContent THEN <<response.content>> ELSE <<>>]

OpenAIFallback ==
    <<"I encountered an error while processing your query with OpenAI. Please check your API key and try again. Error details: ">>

GeminiFallback ==
    <<"I encountered an error while processing your query with Google Gemini. Please check your API key and try again. Error details: ">>

OpenAIProvider(apiKey) == [kind |-> "openai", apiKey |-> apiKey, activeModel |-> <<>>]

GeminiProvider(apiKey, activeModel) ==
    [kind |-> "gemini", apiKey |-> apiKey, activeModel |-> activeModel]

NoProvider == [kind |-> "none", apiKey |-> "", activeModel |-> <<>>]

\* OpenAIProvider.generateAnswer: the request body names the model 'gpt-4o'
OpenAIGenerateAnswer(provider, response) ==
    LET attempt == OpenAIGenerateAttempt(response)
    IN  [raised |-> FALSE, error |-> attempt.error,
         defined |-> attempt.threw \/ attempt.defined,
         value |-> IF attempt.threw THEN OpenAIFallback \o attempt.error
                   ELSE attempt.value,
         request |-> [sent |-> TRUE, backend |-> "openai", model |-> Gpt4o]]

\* what model.generateContent(prompt) and response.text() of the Gemini SDK do:
\* generateContent rejects, or text() throws (a blocked answer), or text()
\* gives the text
GeminiOutcome(rejects, error, textThrows, text) ==
    [rejects |-> rejects, error |-> error, textThrows |-> textThrows, text |-> text]

GeminiOutcomes ==
    { GeminiOutcome(TRUE, "API key not valid. Please pass a valid API key.", FALSE, ""),
      GeminiOutcome(TRUE, "Failed to fetch", FALSE, ""),
      GeminiOutcome(FALSE, "Candidate was blocked due to SAFETY", TRUE, ""),
      GeminiOutcome(FALSE, "", FALSE, "the answer") }

\* GeminiProvider.generateAnswer: the model is the one given at construction
GeminiGenerateAnswer(provider, outcome) ==
    LET threw == outcome.rejects \/ outcome.textThrows
    IN  [raised |-> FALSE, error |-> IF threw THEN <<outcome.error>> ELSE <<>>,
         defined |-> TRUE,
         value |-> IF threw THEN GeminiFallback \o <<outcome.error>>
                   ELSE <<outcome.text>>,
         request |-> [sent |-> TRUE, backend |-> "gemini",
                      model |-> provider.activeModel]]

\* the answers the backend of a provider can give
ListingResponsesOf(provider) ==
    IF provider.kind = "openai" THEN ListingResponses(OpenAIListings)
    ELSE IF provider.kind = "gemini" THEN ListingResponses(GeminiListings)
    ELSE {NoResponse}

GenerationResponsesOf(provider) ==
    IF provider.kind = "openai" THEN ChatResponses
    ELSE IF provider.kind = "gemini" THEN GeminiOutcomes
    ELSE {NoResponse}

\* this.llmProvider.fetchModels()
FetchModels(provider, response) ==
    IF provider.kind = "openai" THEN OpenAIFetchModels(response)
    ELSE GeminiFetchModels(response)

\* this.llmProvider.generateAnswer(prompt)
GenerateAnswer(provider, response) ==
    IF provider.kind = "openai" THEN OpenAIGenerateAnswer(provider, response)
    ELSE GeminiGenerateAnswer(provider, response)

\* the context ids a query comes with: none, the context of the stored
\* document, and a context no stored document is tagged with
ContextIds == {"", "pensions", "legal"}

\* what the application writes to localStorage
ProviderTypes    == {"openai", "gemini"}
ApiKeys          == {"sk-1"}
SelectableModels == {Gpt4Turbo, Gemini15Pro}

EmptyStorage ==
    [active_llm_provider |-> "", openai_api_key |-> "", gemini_api_key |-> "",
     active_llm_model |-> <<>>]

ApiKeyItem(storage, provider) ==
    IF provider = "openai" THEN storage.openai_api_key ELSE storage.gemini_api_key

\* ChatService.setProviderFromLocalStorage: the provider object and the
\* active provider it leaves, given the provider object there was
ProviderFromLocalStorage(storage, current) ==
    LET provider    == IF storage.active_llm_provider # ""
                       THEN storage.active_llm_provider ELSE "openai"
        apiKey      == ApiKeyItem(storage, provider)
        activeModel == storage.active_llm_model
    IN  [llmProvider |->
            IF provider = "openai" /\ apiKey # "" THEN OpenAIProvider(apiKey)
            ELSE IF provider = "gemini" /\ apiKey # ""
            THEN GeminiProvider(apiKey, IF activeModel # <<>> THEN activeModel
                                        ELSE Gemini15Flash)
            ELSE current,
         activeProvider |-> provider]

NoRequest == [sent |-> FALSE, backend |-> "none", model |-> <<>>]

LLMCall(op, backend, raised, response, models, result, sources, selected) ==
    [op |-> op, backend |-> backend, raised |-> raised, response |-> response,
     models |-> models, answer |-> result.value, defined |-> result.defined,
     error |-> result.error, request |-> result.request, sources |-> sources,
     selected |-> selected, contextId |-> "", listed |-> FALSE,
     searched |-> FALSE, relevant |-> 0, keyed |-> TRUE]

NoAnswer == [raised |-> FALSE, error |-> <<>>, defined |-> FALSE, value |-> <<>>,
             request |-> NoRequest]

NoCall == LLMCall("none", "none", FALSE, NoResponse, <<>>, NoAnswer, <<>>, <<>>)

\* a call that returns nothing and calls no backend
Returned(op) == [NoCall EXCEPT !.op = op]

\* the fields of a ChatService of lib/chatService.ts built over an empty
\* localStorage
NoService ==
    [openaiApiKey |-> "", geminiApiKey |-> "", activeProvider |-> "openai",
     activeModel |-> <<>>, availableModels |-> <<>>]

\* no ChatService call is in progress
IdleCall ==
    [pc |-> "idle", call |-> NoCall, provider |-> NoProvider, service |-> NoService,
     query |-> <<>>, top |-> <<>>, documents |-> <<>>, relevantChunks |-> <<>>]

\* ChatService.setOpenAIApiKey
SetOpenAIApiKey(key) ==
    /\ localStorage' = [localStorage EXCEPT !.openai_api_key = key]
    /\ llmProvider' = IF activeProvider = "openai" THEN OpenAIProvider(key)
                      ELSE llmProvider
    /\ llmCall' = Returned("setOpenAIApiKey")
    /\ UNCHANGED <<activeProvider, availableModels, pending>>
    /\ UNCHANGED <<storeVars, concVars, chunkVars, searchVars, chatService, runVars>>

\* ChatService.setGeminiApiKey: the provider is built with its default model
SetGeminiApiKey(key) ==
    /\ localStorage' = [localStorage EXCEPT !.gemini_api_key = key]
    /\ llmProvider' = IF activeProvider = "gemini"
                      THEN GeminiProvider(key, Gemini15Flash)
                      ELSE llmProvider
    /\ llmCall' = Returned("setGeminiApiKey")
    /\ UNCHANGED <<activeProvider, availableModels, pending>>
    /\ UNCHANGED <<storeVars, concVars, chunkVars, searchVars, chatService, runVars>>

\* ChatService.setActiveProvider
SetActiveProvider(provider) ==
    LET storage == [localStorage EXCEPT !.active_llm_provider = provider]
        set     == ProviderFromLocalStorage(storage, llmProvider)
    IN  /\ localStorage' = storage
        /\ llmProvider' = set.llmProvider
        /\ activeProvider' = set.activeProvider
        /\ llmCall' = Returned("setActiveProvider")
        /\ UNCHANGED <<availableModels, pending>>
        /\ UNCHANGED <<storeVars, concVars, chunkVars, searchVars, chatService, runVars>>

\* ChatService.setActiveModel: setItem, or removeItem for null and ""
SetActiveModel(modelId) ==
    /\ localStorage' = [localStorage EXCEPT !.active_llm_model = modelId]
    /\ llmCall' = Returned("setActiveModel")
    /\ UNCHANGED <<llmProvider, activeProvider, availableModels, pending>>
    /\ UNCHANGED <<storeVars, concVars, chunkVars, searchVars, chatService, runVars>>

\* ChatService.fetchAvailableModels up to its await: it throws without a
\* provider, else it calls fetchModels() of the provider object it has, which
\* sends the request
FetchAvailableModels ==
    /\ pending.pc = "idle"
    /\ LET call == LLMCall("fetchAvailableModels", llmProvider.kind, FALSE,
                           NoResponse, <<>>, NoAnswer, <<>>,
                           localStorage.active_llm_model)
       IN  IF llmProvider.kind = "none"
           THEN /\ llmCall' = [call EXCEPT !.raised = TRUE]
                /\ UNCHANGED pending
           ELSE /\ pending' = [IdleCall EXCEPT !.pc = "fetch.models",
                                               !.call = [call EXCEPT !.listed = TRUE],
                                               !.provider = llmProvider]
                /\ llmCall' = NoCall
    /\ UNCHANGED <<localStorage, llmProvider, activeProvider, availableModels>>
    /\ UNCHANGED <<storeVars, concVars, chunkVars, searchVars, chatService, runVars>>

\* fetchModels() has settled: the assignment of line 89, the default model of
\* lines 92-94 from the item localStorage holds by then, and the return
FetchAvailableModelsReturns(response) ==
    LET fetched == FetchModels(pending.provider, response)
        call    == [pending.call EXCEPT !.response = response]
    IN  /\ IF fetched.raised
           THEN /\ llmCall' = [call EXCEPT !.raised = TRUE]
                /\ UNCHANGED <<localStorage, availableModels>>
           ELSE /\ availableModels' = fetched.models
                /\ localStorage' =
                       IF /\ Len(fetched.models) > 0
                          /\ localStorage.active_llm_model = <<>>
                       THEN [localStorage EXCEPT
                               !.active_llm_model = fetched.models[1].id]
                       ELSE localStorage
                /\ llmCall' = [call EXCEPT !.models = fetched.models]
        /\ pending' = IdleCall

\* the fetch of fetchModels settles: a rejection or a status that is not OK
\* ends fetchModels with its default list, else fetchModels awaits
\* response.json()
FetchModelsResponds(response) ==
    /\ pending.call.op = "fetchAvailableModels"
    /\ pending.pc = "fetch.models"
    /\ IF response.rejects \/ ~response.ok
       THEN FetchAvailableModelsReturns(response)
       ELSE /\ pending' = [pending EXCEPT !.pc = "response.json"]
            /\ UNCHANGED <<localStorage, availableModels, llmCall>>
    /\ UNCHANGED <<llmProvider, activeProvider>>
    /\ UNCHANGED <<storeVars, concVars, chunkVars, searchVars, chatService, runVars>>

\* response.json() of fetchModels settles, and fetchModels returns
FetchModelsParses(response) ==
    /\ pending.call.op = "fetchAvailableModels"
    /\ pending.pc = "response.json"
    /\ ~response.rejects
    /\ response.ok
    /\ FetchAvailableModelsReturns(response)
    /\ UNCHANGED <<llmProvider, activeProvider>>
    /\ UNCHANGED <<storeVars, concVars, chunkVars, searchVars, chatService, runVars>>

NoInformation ==
    <<"I couldn't find any relevant information in the uploaded documents. Please try a different query or upload more documents.">>

\* the sources of processQuery: one per relevant chunk, with its document
Sources(relevantChunks) ==
    [i \in 1..Len(relevantChunks) |->
        [documentId |-> relevantChunks[i].documentId,
         known |-> relevantChunks[i].documentId \in DOMAIN documents,
         chunkId |-> relevantChunks[i].id]]

\* relevantChunks.length === 0: processQuery returns the fixed answer
MutNoneRelevant(relevantChunks) == FALSE

NoneRelevant(relevantChunks) == Len(relevantChunks) = 0

\* processQuery returns the fixed answer without sources
NothingFound(call) ==
    [call EXCEPT !.searched = TRUE, !.defined = TRUE, !.answer = NoInformation]

\* processQuery ends with what generateAnswer gave: the answer with the
\* sources, or the error generateAnswer raised
Answered(call, response, generated) ==
    [call EXCEPT !.raised = generated.raised,
                 !.response = response,
                 !.defined = generated.defined,
                 !.answer = generated.value,
                 !.error = generated.error,
                 !.request = generated.request,
                 !.sources = IF generated.raised THEN <<>> ELSE call.sources]

\* the calls of use.load the model follows: a later one resolves
MaxLoads == 2

\* ChatService.processQuery up to its first await, the query given by its
\* embedding: it throws without a provider, else it calls searchSimilarChunks,
\* whose ensureModelInitialized awaits tf.setBackend when this.model is unset;
\* with the model set the first await is that of model.embed.
\* The contextId argument is not used by the body.
ProcessQuery(queryVector, contextId) ==
    /\ pending.pc = "idle"
    /\ LET call == [LLMCall("processQuery", llmProvider.kind, FALSE, NoResponse,
                            <<>>, NoAnswer, <<>>, localStorage.active_llm_model)
                        EXCEPT !.contextId = contextId]
       IN  IF llmProvider.kind = "none"
           THEN /\ llmCall' = [call EXCEPT !.raised = TRUE]
                /\ UNCHANGED pending
           ELSE /\ pending' = [IdleCall EXCEPT
                                  !.pc = IF encoder.model THEN "model.embed"
                                         ELSE "tf.setBackend",
                                  !.call = call,
                                  !.query = queryVector]
                /\ llmCall' = NoCall
    /\ UNCHANGED <<localStorage, llmProvider, activeProvider, availableModels>>
    /\ UNCHANGED <<storeVars, concVars, chunkVars, searchVars, chatService, runVars>>

\* an await of ensureModelInitialized settles: tf.setBackend, then tf.ready,
\* after which use.load is called, then use.load, whose result is assigned to
\* this.model; processQuery rethrows a rejection
ProcessQueryInitializes(resolves) ==
    /\ pending.call.op = "processQuery"
    /\ pending.pc \in {"tf.setBackend", "tf.ready", "use.load"}
    /\ IF resolves
       THEN /\ pending' = [pending EXCEPT
                              !.pc = CASE pending.pc = "tf.setBackend" -> "tf.ready"
                                       [] pending.pc = "tf.ready" -> "use.load"
                                       [] OTHER -> "model.embed"]
            /\ encoder' = CASE pending.pc = "tf.ready" ->
                                  [encoder EXCEPT !.loads = @ + 1]
                             [] pending.pc = "use.load" ->
                                  [encoder EXCEPT !.model = TRUE]
                             [] OTHER -> encoder
            /\ UNCHANGED llmCall
       ELSE /\ pending.pc = "use.load" => encoder.loads < MaxLoads
            /\ llmCall' = [pending.call EXCEPT !.raised = TRUE]
            /\ pending' = IdleCall
            /\ UNCHANGED encoder
    /\ UNCHANGED <<localStorage, llmProvider, activeProvider, availableModels>>
    /\ UNCHANGED <<storeVars, concVars, chunkVars, searchVars, chatService, batch, run>>

\* generateEmbeddings: the await of this.model.embed([query]) settles, and
\* processQuery rethrows a rejection
ProcessQueryEmbeds(resolves) ==
    /\ pending.call.op = "processQuery"
    /\ pending.pc = "model.embed"
    /\ IF resolves
       THEN /\ pending' = [pending EXCEPT !.pc = "embeddings.toArray"]
            /\ UNCHANGED llmCall
       ELSE /\ llmCall' = [pending.call EXCEPT !.raised = TRUE]
            /\ pending' = IdleCall
    /\ UNCHANGED <<localStorage, llmProvider, activeProvider, availableModels>>
    /\ UNCHANGED <<storeVars, concVars, chunkVars, searchVars, chatService, runVars>>

\* await this.db.embeddings.toArray(), then the similarities, the sort and
\* the slice
ProcessQueryEmbeddings ==
    /\ pending.call.op = "processQuery"
    /\ pending.pc = "embeddings.toArray"
    /\ pending' = [pending EXCEPT
                      !.pc = "chunks.toArray",
                      !.top = TopEmbeddings(ToArray(embeddings), pending.query,
                                            DefaultLimit)]
    /\ UNCHANGED <<localStorage, llmProvider, activeProvider, availableModels,
                   llmCall>>
    /\ UNCHANGED <<storeVars, concVars, chunkVars, searchVars, chatService, runVars>>

\* await this.db.chunks.where('id').anyOf(chunkIds).toArray(): the relevant
\* chunks are there, and processQuery returns if there is none
ProcessQueryChunks ==
    /\ pending.call.op = "processQuery"
    /\ pending.pc = "chunks.toArray"
    /\ LET relevantChunks == ChunksOfTop(pending.top, chunks)
       IN  IF NoneRelevant(relevantChunks)
           THEN /\ llmCall' = NothingFound(pending.call)
                /\ pending' = IdleCall
           ELSE /\ pending' = [pending EXCEPT
                                  !.pc = "documents.get",
                                  !.relevantChunks = relevantChunks,
                                  !.call.searched = TRUE,
                                  !.call.relevant = Len(relevantChunks)]
                /\ UNCHANGED llmCall
    /\ UNCHANGED <<localStorage, llmProvider, activeProvider, availableModels>>
    /\ UNCHANGED <<storeVars, concVars, chunkVars, searchVars, chatService, runVars>>

\* the db.getDocument reads of the sources settle, then generateAnswer runs up
\* to its await: it calls generateAnswer(prompt) of the provider object the
\* service has by then, which sends the request
ProcessQuerySources ==
    /\ pending.call.op = "processQuery"
    /\ pending.pc = "documents.get"
    /\ pending' = [pending EXCEPT
                      !.pc = IF llmProvider.kind = "openai" THEN "fetch.chat"
                             ELSE "generateContent",
                      !.provider = llmProvider,
                      !.call.sources = Sources(pending.relevantChunks)]
    /\ UNCHANGED <<localStorage, llmProvider, activeProvider, availableModels,
                   llmCall>>
    /\ UNCHANGED <<storeVars, concVars, chunkVars, searchVars, chatService, runVars>>

\* the request of the provider's generateAnswer settles: the fetch of
\* OpenAIProvider, after which it awaits response.json() unless the fetch
\* rejected, or model.generateContent of GeminiProvider
ProcessQueryResponds(response) ==
    /\ pending.call.op = "processQuery"
    /\ pending.pc \in {"fetch.chat", "generateContent"}
    /\ IF pending.pc = "fetch.chat" /\ ~response.rejects
       THEN /\ pending' = [pending EXCEPT !.pc = "response.json"]
            /\ UNCHANGED llmCall
       ELSE /\ llmCall' = Answered(pending.call, response,
                                   GenerateAnswer(pending.provider, response))
            /\ pending' = IdleCall
    /\ UNCHANGED <<localStorage, llmProvider, activeProvider, availableModels>>
    /\ UNCHANGED <<storeVars, concVars, chunkVars, searchVars, chatService, runVars>>

\* response.json() of OpenAIProvider.generateAnswer settles, and processQuery
\* returns
ProcessQueryParses(response) ==
    /\ pending.call.op = "processQuery"
    /\ pending.pc = "response.json"
    /\ ~response.rejects
    /\ llmCall' = Answered(pending.call, response,
                           GenerateAnswer(pending.provider, response))
    /\ pending' = IdleCall
    /\ UNCHANGED <<localStorage, llmProvider, activeProvider, availableModels>>
    /\ UNCHANGED <<storeVars, concVars, chunkVars, searchVars, chatService, runVars>>

----------------------------------------------------------------------------
(* The ChatService of src/src/lib/chatService.ts, which the chat interface   *)
(* imports: it keeps the keys and the active model in its own fields, finds  *)
(* the relevant chunks by keyword matching and calls the backends itself.    *)
(* Its operations keep the names they have in that file.                     *)

\* new ChatService(db): the fields read from localStorage
constructor(storage) ==
    [openaiApiKey |-> storage.openai_api_key,
     geminiApiKey |-> storage.gemini_api_key,
     activeProvider |-> IF storage.active_llm_provider # ""
                        THEN storage.active_llm_provider ELSE "openai",
     activeModel |-> storage.active_llm_model,
     availableModels |-> <<>>]

\* the key of the active provider is set
hasActiveKey(service) ==
    IF service.activeProvider = "openai" THEN service.openaiApiKey # ""
    ELSE service.geminiApiKey # ""

setOpenAIApiKey(key) ==
    /\ chatService' = [chatService EXCEPT !.openaiApiKey = key]
    /\ localStorage' = [localStorage EXCEPT !.openai_api_key = key]
    /\ llmCall' = Returned("setOpenAIApiKey")
    /\ UNCHANGED <<llmProvider, activeProvider, availableModels, pending>>
    /\ UNCHANGED <<storeVars, concVars, chunkVars, searchVars, runVars>>

setGeminiApiKey(key) ==
    /\ chatService' = [chatService EXCEPT !.geminiApiKey = key]
    /\ localStorage' = [localStorage EXCEPT !.gemini_api_key = key]
    /\ llmCall' = Returned("setGeminiApiKey")
    /\ UNCHANGED <<llmProvider, activeProvider, availableModels, pending>>
    /\ UNCHANGED <<storeVars, concVars, chunkVars, searchVars, runVars>>

\* setActiveProvider: the active model is reset with setActiveModel(null)
setActiveProvider(provider) ==
    /\ chatService' = [chatService EXCEPT !.activeProvider = provider,
                                          !.activeModel = <<>>]
    /\ localStorage' = [localStorage EXCEPT !.active_llm_provider = provider,
                                            !.active_llm_model = <<>>]
    /\ llmCall' = Returned("setActiveProvider")
    /\ UNCHANGED <<llmProvider, activeProvider, availableModels, pending>>
    /\ UNCHANGED <<storeVars, concVars, chunkVars, searchVars, runVars>>

setActiveModel(modelId) ==
    /\ chatService' = [chatService EXCEPT !.activeModel = modelId]
    /\ localStorage' = [localStorage EXCEPT !.active_llm_model = modelId]
    /\ llmCall' = Returned("setActiveModel")
    /\ UNCHANGED <<llmProvider, activeProvider, availableModels, pending>>
    /\ UNCHANGED <<storeVars, concVars, chunkVars, searchVars, runVars>>

\* fetchOpenAIModels: the same body as OpenAIProvider.fetchModels
fetchOpenAIModels(response) == OpenAIFetchModels(response).models

\* getGeminiModels: a fixed list, no network call
getGeminiModels == GeminiDefaultModels

\* fetchAvailableModels calls the models endpoint: OpenAI with a key
listsOpenAIModels(service) ==
    service.activeProvider = "openai" /\ service.openaiApiKey # ""

\* the models fetchAvailableModels has without waiting: the fixed list of
\* Gemini with a key, else none
modelsAtOnce(service) ==
    IF service.activeProvider = "gemini" /\ service.geminiApiKey # ""
    THEN getGeminiModels
    ELSE <<>>

\* fetchAvailableModels once it has the models: the assignment, and the first
\* model made active if the service has no active model by then
modelsFetched(service, models) ==
    [service EXCEPT
        !.availableModels = models,
        !.activeModel = IF Len(models) > 0 /\ service.activeModel = <<>>
                        THEN models[1].id ELSE service.activeModel]

\* the terms that score a bonus in a context
ContextTerms(contextId) ==
    IF contextId = "pensions"
    THEN {"pension", "transfer", "value", "scheme", "benefit", "retirement",
          "annuity", "contribution", "fund"}
    ELSE IF contextId = "university"
    THEN {"assessment", "grade", "essay", "criteria", "academic", "research",
          "study", "analysis", "conclusion"}
    ELSE IF contextId = "legal"
    THEN {"contract", "agreement", "clause", "party", "legal", "law",
          "obligation", "rights", "liability"}
    ELSE IF contextId = "medical"
    THEN {"patient", "diagnosis", "treatment", "doctor", "hospital", "medication",
          "symptom", "condition", "health"}
    ELSE {}

\* content.includes(keyword): the content of a chunk is kept as the set of
\* the keywords that occur in it; the empty keyword occurs in every content
ContentIncludes(content, keyword) == keyword = "" \/ keyword \in content

\* the score of a chunk: 1 for each keyword of the query that occurs in it,
\* and 2 more if the keyword is a term of the context
RECURSIVE Score(_, _, _)
Score(content, keywords, contextId) ==
    IF keywords = <<>> THEN 0
    ELSE (IF ContentIncludes(content, Head(keywords))
          THEN 1 + (IF Head(keywords) \in ContextTerms(contextId) THEN 2 ELSE 0)
          ELSE 0)
         + Score(content, Tail(keywords), contextId)

\* sort((a, b) => b.score - a.score): stable, highest first
RECURSIVE InsertByScore(_, _)
InsertByScore(sorted, item) ==
    IF sorted = <<>> THEN <<item>>
    ELSE IF item.score > Head(sorted).score
         THEN <<item>> \o sorted
         ELSE <<Head(sorted)>> \o InsertByScore(Tail(sorted), item)

RECURSIVE SortByScore(_)
SortByScore(items) ==
    IF items = <<>> THEN <<>>
    ELSE InsertByScore(SortByScore(SubSeq(items, 1, Len(items) - 1)),
                       items[Len(items)])

\* db.getChunks(doc.id) for each document of a list, flattened
RECURSIVE ChunksOfDocuments(_)
ChunksOfDocuments(docs) ==
    IF docs = <<>> THEN <<>>
    ELSE ToArray([c \in ChunksOf(Head(docs).id, chunks) |-> chunks[c]])
            \o ChunksOfDocuments(Tail(docs))

\* searchRelevantChunks, the filter by context of the documents read
filteredDocuments(allDocuments, contextId) ==
    IF contextId # ""
    THEN SelectSeq(allDocuments, LAMBDA doc : doc.rec.context = contextId)
    ELSE allDocuments

\* searchRelevantChunks from the chunks read on: those that score above zero,
\* best five first
topChunks(allChunks, keywords, contextId) ==
    LET scoredChunks == [i \in 1..Len(allChunks) |->
                            [chunk |-> allChunks[i],
                             score |-> Score(allChunks[i].rec.content,
                                             keywords, contextId)]]
        top          == Slice(SelectSeq(SortByScore(scoredChunks),
                                        LAMBDA item : item.score > 0),
                              DefaultLimit)
    IN  [i \in 1..Len(top) |->
            [id |-> top[i].chunk.id,
             documentId |-> top[i].chunk.rec.documentId]]

\* generateOpenAIAnswer: the request names the active model, or 'gpt-4o'
generateOpenAIAnswer(service, response) ==
    IF service.openaiApiKey = ""
    THEN [NoAnswer EXCEPT !.raised = TRUE, !.error = <<"OpenAI API key is not set">>]
    ELSE LET attempt == OpenAIGenerateAttempt(response)
         IN  [raised |-> FALSE, error |-> attempt.error,
              defined |-> attempt.threw \/ attempt.defined,
              value |-> IF attempt.threw THEN OpenAIFallback \o attempt.error
                        ELSE attempt.value,
              request |-> [sent |-> TRUE, backend |-> "openai",
                           model |-> IF service.activeModel # <<>>
                                     THEN service.activeModel ELSE Gpt4o]]

\* generateGeminiAnswer: the model is the active model, or 'gemini-1.5-flash'
generateGeminiAnswer(service, outcome) ==
    IF service.geminiApiKey = ""
    THEN [NoAnswer EXCEPT !.raised = TRUE,
                          !.error = <<"Google Gemini API key is not set">>]
    ELSE LET threw == outcome.rejects \/ outcome.textThrows
         IN  [raised |-> FALSE, error |-> IF threw THEN <<outcome.error>> ELSE <<>>,
              defined |-> TRUE,
              value |-> IF threw THEN GeminiFallback \o <<outcome.error>>
                        ELSE <<outcome.text>>,
              request |-> [sent |-> TRUE, backend |-> "gemini",
                           model |-> IF service.activeModel # <<>>
                                     THEN service.activeModel ELSE Gemini15Flash]]

\* generateAnswer: the backend of the active provider
generateAnswer(service, response) ==
    IF service.activeProvider = "openai" THEN generateOpenAIAnswer(service, response)
    ELSE generateGeminiAnswer(service, response)

\* the answers the backends can give to a service
generationResponsesOf(service) ==
    IF service.activeProvider = "openai" THEN ChatResponses ELSE GeminiOutcomes

\* fetchAvailableModels from its models on: the rest of its try block, and
\* for the call made by processQuery the checks that follow it and the call
\* of searchRelevantChunks; listing is what the models endpoint answered
modelsReturned(began, listing, models) ==
    LET service == modelsFetched(chatService, models)
        call    == [began.call EXCEPT
                        !.models = models,
                        !.response = IF began.call.op = "fetchAvailableModels"
                                     THEN listing ELSE NoResponse]
    IN  /\ chatService' = service
        /\ localStorage' =
               IF service.activeModel # chatService.activeModel
               THEN [localStorage EXCEPT !.active_llm_model = service.activeModel]
               ELSE localStorage
        /\ IF call.op = "fetchAvailableModels"
           THEN /\ llmCall' = call
                /\ pending' = IdleCall
           ELSE IF service.activeModel = <<>>
           THEN /\ llmCall' = [call EXCEPT !.raised = TRUE]
                /\ pending' = IdleCall
           ELSE /\ pending' = [began EXCEPT !.pc = "documents.toArray",
                                            !.call = call]
                /\ llmCall' = IF pending.pc = "idle" THEN NoCall ELSE llmCall

\* fetchAvailableModels up to its first await: it empties the list and calls
\* fetchOpenAIModels, which sends the request, or goes on at once
modelsCalled(began) ==
    IF listsOpenAIModels(chatService)
    THEN /\ chatService' = [chatService EXCEPT !.availableModels = <<>>]
         /\ pending' = [began EXCEPT !.pc = "fetch.models", !.call.listed = TRUE]
         /\ llmCall' = NoCall
         /\ UNCHANGED localStorage
    ELSE modelsReturned(began, NoResponse, modelsAtOnce(chatService))

\* the public fetchAvailableModels, called by the chat interface, up to its
\* first await
fetchAvailableModelsCall ==
    /\ pending.pc = "idle"
    /\ modelsCalled([IdleCall EXCEPT
                        !.call = LLMCall("fetchAvailableModels",
                                         chatService.activeProvider, FALSE,
                                         NoResponse, <<>>, NoAnswer, <<>>,
                                         chatService.activeModel)])
    /\ UNCHANGED <<llmProvider, activeProvider, availableModels>>
    /\ UNCHANGED <<storeVars, concVars, chunkVars, searchVars, runVars>>

\* the fetch of fetchOpenAIModels settles: a rejection or a status that is
\* not OK ends it with the default list, else it awaits response.json()
fetchOpenAIModelsResponds(listing) ==
    /\ pending.pc = "fetch.models"
    /\ IF listing.rejects \/ ~listing.ok
       THEN modelsReturned(pending, listing, fetchOpenAIModels(listing))
       ELSE /\ pending' = [pending EXCEPT !.pc = "models.json"]
            /\ UNCHANGED <<chatService, localStorage, llmCall>>
    /\ UNCHANGED <<llmProvider, activeProvider, availableModels>>
    /\ UNCHANGED <<storeVars, concVars, chunkVars, searchVars, runVars>>

\* response.json() of fetchOpenAIModels settles
fetchOpenAIModelsParses(listing) ==
    /\ pending.pc = "models.json"
    /\ ~listing.rejects
    /\ listing.ok
    /\ modelsReturned(pending, listing, fetchOpenAIModels(listing))
    /\ UNCHANGED <<llmProvider, activeProvider, availableModels>>
    /\ UNCHANGED <<storeVars, concVars, chunkVars, searchVars, runVars>>

\* processQuery up to its first await, the query given by its keywords
\* (query.toLowerCase().split(/\s+/)): the check of the key, then
\* fetchAvailableModels without an active model, else searchRelevantChunks
processQuery(keywords, contextId) ==
    /\ pending.pc = "idle"
    /\ LET call  == [LLMCall("processQuery", chatService.activeProvider, FALSE,
                             NoResponse, <<>>, NoAnswer, <<>>,
                             chatService.activeModel)
                        EXCEPT !.contextId = contextId,
                               !.keyed = hasActiveKey(chatService)]
           began == [IdleCall EXCEPT !.call = call, !.query = keywords]
       IN  IF ~hasActiveKey(chatService)
           THEN /\ llmCall' = [call EXCEPT !.raised = TRUE]
                /\ UNCHANGED <<chatService, localStorage, pending>>
           ELSE IF chatService.activeModel = <<>>
           THEN modelsCalled(began)
           ELSE /\ pending' = [began EXCEPT
                                  !.pc = "documents.toArray",
                                  !.call.models = chatService.availableModels]
                /\ llmCall' = NoCall
                /\ UNCHANGED <<chatService, localStorage>>
    /\ UNCHANGED <<llmProvider, activeProvider, availableModels>>
    /\ UNCHANGED <<storeVars, concVars, chunkVars, searchVars, runVars>>

\* searchRelevantChunks has returned: processQuery returns the fixed answer
\* if there is no chunk, else it reads the documents of the sources
chunksRetrieved(relevantChunks) ==
    IF NoneRelevant(relevantChunks)
    THEN /\ llmCall' = NothingFound(pending.call)
         /\ pending' = IdleCall
    ELSE /\ pending' = [pending EXCEPT !.pc = "documents.get",
                                       !.relevantChunks = relevantChunks,
                                       !.call.searched = TRUE,
                                       !.call.relevant = Len(relevantChunks)]
         /\ UNCHANGED llmCall

\* searchRelevantChunks: await this.db.getDocuments(); without a document
\* left after the filter it returns no chunk, else it calls db.getChunks for
\* each document
searchDocuments ==
    /\ pending.pc = "documents.toArray"
    /\ LET filtered == filteredDocuments(ToArray(documents), pending.call.contextId)
       IN  IF Len(filtered) = 0
           THEN chunksRetrieved(<<>>)
           ELSE /\ pending' = [pending EXCEPT !.pc = "chunks.toArray",
                                              !.documents = filtered]
                /\ UNCHANGED llmCall
    /\ UNCHANGED <<chatService, localStorage>>
    /\ UNCHANGED <<llmProvider, activeProvider, availableModels>>
    /\ UNCHANGED <<storeVars, concVars, chunkVars, searchVars, runVars>>

\* the db.getChunks reads settle, and searchRelevantChunks returns
searchChunks ==
    /\ pending.pc = "chunks.toArray"
    /\ chunksRetrieved(topChunks(ChunksOfDocuments(pending.documents),
                                 pending.query, pending.call.contextId))
    /\ UNCHANGED <<chatService, localStorage>>
    /\ UNCHANGED <<llmProvider, activeProvider, availableModels>>
    /\ UNCHANGED <<storeVars, concVars, chunkVars, searchVars, runVars>>

\* the db.getDocument reads of the sources settle, then generateAnswer runs up
\* to its await: it reads the active provider, its key and the active model
\* as they are by then, throws without the key and else sends the request
sourcesRead ==
    /\ pending.pc = "documents.get"
    /\ LET call == [pending.call EXCEPT !.sources = Sources(pending.relevantChunks)]
       IN  IF ~hasActiveKey(chatService)
           THEN /\ llmCall' = Answered(call, NoResponse,
                                       generateAnswer(chatService, NoResponse))
                /\ pending' = IdleCall
           ELSE /\ pending' = [pending EXCEPT
                                  !.pc = IF chatService.activeProvider = "openai"
                                         THEN "fetch.chat" ELSE "generateContent",
                                  !.call = call,
                                  !.service = chatService]
                /\ UNCHANGED llmCall
    /\ UNCHANGED <<chatService, localStorage>>
    /\ UNCHANGED <<llmProvider, activeProvider, availableModels>>
    /\ UNCHANGED <<storeVars, concVars, chunkVars, searchVars, runVars>>

\* the request of generateAnswer settles: the fetch of generateOpenAIAnswer,
\* after which it awaits response.json() unless the fetch rejected, or
\* model.generateContent of generateGeminiAnswer
generationResponds(response) ==
    /\ pending.pc \in {"fetch.chat", "generateContent"}
    /\ IF pending.pc = "fetch.chat" /\ ~response.rejects
       THEN /\ pending' = [pending EXCEPT !.pc = "response.json"]
            /\ UNCHANGED llmCall
       ELSE /\ llmCall' = Answered(pending.call, response,
                                   generateAnswer(pending.service, response))
            /\ pending' = IdleCall
    /\ UNCHANGED <<chatService, localStorage>>
    /\ UNCHANGED <<llmProvider, activeProvider, availableModels>>
    /\ UNCHANGED <<storeVars, concVars, chunkVars, searchVars, runVars>>

\* response.json() of generateOpenAIAnswer settles, and processQuery returns
generationParses(response) ==
    /\ pending.pc = "response.json"
    /\ ~response.rejects
    /\ llmCall' = Answered(pending.call, response,
                           generateAnswer(pending.service, response))
    /\ pending' = IdleCall
    /\ UNCHANGED <<chatService, localStorage>>
    /\ UNCHANGED <<llmProvider, activeProvider, availableModels>>
    /\ UNCHANGED <<storeVars, concVars, chunkVars, searchVars, runVars>>

\* the queries of the model, as keywords: one that occurs in a pensions
\* chunk, one with a word of no chunk, one ending in a blank (its last
\* keyword is empty), and one that occurs nowhere
Queries == {<<"pension">>, <<"contract", "the">>, <<"pension", "">>, <<"nothing">>}

----------------------------------------------------------------------------
(* FileUploader: onDrop, removeFile, and processFiles, the batch loop over   *)
(* DocumentProcessor.processFile, await by await                             *)

MaxBatch == 2
MaxDropped == 3
MaxChunksPerFile == 2

\* the calls of the store processFile awaits
StoreCalls == {"addDocument", "addChunks", "addEmbeddings"}

\* the awaits of removeOrphanedChunksAndEmbeddings
SweepAwaits ==
    {"sweep.documentIds", "sweep.orphanedChunks", "sweep.bulkDeleteChunks",
     "sweep.allChunkIds", "sweep.orphanedEmbeddings", "sweep.bulkDeleteEmbeddings"}

\* the awaited step of processFile at which a file makes it throw, or "none"
FailurePoints == {"none", "extract"} \cup StoreCalls

\* how many chunks createChunks makes of the text of the k-th file dropped
\* (at least one, by the final guard of createChunks): one, two, ... in turn
ChunkCountOf(k) == 1 + ((k - 1) % MaxChunksPerFile)

\* a dropped file: its name (the k-th file dropped is named k), where its
\* pipeline throws, whether a store call that throws does so after its own
\* write (in an await of its sweep) or at the write, and how many chunks
\* createChunks makes of its text
Files ==
    {f \in [name : 1..MaxDropped, failsAt : FailurePoints,
            afterWrite : BOOLEAN, chunkCount : 1..MaxChunksPerFile] :
        /\ f.afterWrite => f.failsAt \in StoreCalls
        /\ f.chunkCount = ChunkCountOf(f.name)}

\* the arrays of files the dropzone hands to onDrop
Batches == UNION {[1..n -> Files] : n \in 1..MaxBatch}

\* the uploader as it is mounted around `files`: nothing processed, the
\* button not pressed
IdleBatch(files) ==
    [files |-> files, dropped |-> Len(files), captured |-> <<>>,
     isProcessing |-> FALSE, pc |-> "idle",
     index |-> 0, processed |-> <<>>, failed |-> <<>>,
     processedFiles |-> <<>>, failedFiles |-> <<>>,
     previous |-> [processedFiles |-> <<>>, failedFiles |-> <<>>],
     uuid |-> 0, documentId |-> 0, chunkIds |-> {}, embeddings |-> EmptyTable,
     trace |-> <<>>]

\* the statements of processFile in program order: what follows each step
MutNextStep(step) ==
    CASE step = "extract" -> "createChunks"
      [] step = "createChunks" -> "addChunks"
      [] step = "addChunks" -> "addDocument"
      [] step = "addDocument" -> "embed"
      [] step = "embed" -> "addEmbeddings"
      [] OTHER -> "resolved"

NextStep(step) ==
    CASE step = "extract" -> "addDocument"
      [] step = "addDocument" -> "createChunks"
      [] step = "createChunks" -> "addChunks"
      [] step = "addChunks" -> "embed"
      [] step = "embed" -> "addEmbeddings"
      [] OTHER -> "resolved"

\* a step of the current file's processFile is done
Stepped(b, step) ==
    [b EXCEPT !.pc = NextStep(step),
              !.trace = Append(@, [file |-> b.index, step |-> step])]

\* chunks.map(chunk => ({id: uuidv4(), chunkId: chunk.id, ...})): the k-th fresh
\* id goes to the k-th chunk
MutEmbeddingsFor(chunkIds, uuid0) ==
    [e \in {uuid0 + k : k \in 1..Cardinality(chunkIds)} |->
        [chunkId |-> CHOOSE c \in chunkIds : \A b \in chunkIds : c <= b]]

EmbeddingsFor(chunkIds, uuid0) ==
    LET Rank(c) == Cardinality({b \in chunkIds : b <= c})
    IN  [e \in {uuid0 + k : k \in 1..Cardinality(chunkIds)} |->
            [chunkId |-> CHOOSE c \in chunkIds : Rank(c) = e - uuid0]]

\* processFile goes on after an awaited step, up to its next await: the uuid
\* of the document and db.addDocument, or createChunks (every chunk with a
\* fresh uuid) and db.addChunks, or the embedding records (one per chunk) and
\* db.addEmbeddings
Continued(b, step) ==
    LET s     == Stepped(b, step)
        count == b.captured[b.index].chunkCount
    IN  CASE s.pc = "addDocument" ->
                [s EXCEPT !.uuid = @ + 1, !.documentId = s.uuid + 1]
          [] s.pc = "createChunks" ->
                Stepped([s EXCEPT !.uuid = @ + count,
                                  !.chunkIds = (s.uuid + 1)..(s.uuid + count)],
                        "createChunks")
          [] s.pc = "embed" ->
                Stepped([s EXCEPT !.uuid = @ + Cardinality(s.chunkIds),
                                  !.embeddings = EmbeddingsFor(s.chunkIds, s.uuid)],
                        "embed")
          [] OTHER -> s

\* the for loop takes the next entry of the files it was started with and
\* calls processFile, which awaits the extraction; after the last entry the
\* local lists are appended to the lists of the component, the files are
\* cleared and processFiles returns
NextFile(b) ==
    IF b.index < Len(b.captured)
    THEN [b EXCEPT !.index = @ + 1, !.pc = "extract"]
    ELSE [b EXCEPT !.pc = "returned", !.isProcessing = FALSE, !.files = <<>>,
                   !.processedFiles = @ \o b.processed,
                   !.failedFiles = @ \o b.failed]

\* processFile resolved: processed.push(file.name)
Resolved(b, step) ==
    NextFile([b EXCEPT !.processed = Append(@, b.captured[b.index].name),
                       !.trace = @ \o <<[file |-> b.index, step |-> step],
                                        [file |-> b.index, step |-> "resolved"]>>])

\* processFile rejected at a step: the catch block pushes the name and the message
MutRejected(b, step) ==
    [b EXCEPT !.pc = "returned", !.isProcessing = FALSE, !.files = <<>>,
              !.processedFiles = @ \o b.processed,
              !.failedFiles = (@ \o b.failed)
                                 \o <<[name |-> b.captured[b.index].name,
                                       error |-> step]>>,
              !.trace = @ \o <<[file |-> b.index, step |-> step],
                               [file |-> b.index, step |-> "rejected"]>>]

Rejected(b, step) ==
    NextFile([b EXCEPT !.failed = Append(@, [name |-> b.captured[b.index].name,
                                             error |-> step]),
                       !.trace = @ \o <<[file |-> b.index, step |-> step],
                                        [file |-> b.index, step |-> "rejected"]>>])

\* the file whose processFile is running
CurrentFile == batch.captured[batch.index]

\* the current file makes this step throw
Throws(step) == CurrentFile.failsAt = step

\* the store call in progress rejects in an await of its sweep
RejectsInSweep ==
    /\ batch.pc \in StoreCalls
    /\ Throws(batch.pc)
    /\ CurrentFile.afterWrite

BatchIdle == UNCHANGED <<lastCall, nextDocId, chunkVars, searchVars, llmVars, encoder, run>>

\* the dropzone accepts files: setFiles(prev => [...prev, ...acceptedFiles])
onDrop(acceptedFiles) ==
    /\ batch.dropped + Len(acceptedFiles) <= MaxDropped
    /\ \A i \in 1..Len(acceptedFiles) : acceptedFiles[i].name = batch.dropped + i
    /\ Len(batch.files) + Len(acceptedFiles) <= MaxBatch
    /\ batch' = [batch EXCEPT !.files = @ \o acceptedFiles,
                              !.dropped = @ + Len(acceptedFiles)]
    /\ UNCHANGED <<documents, chunks, embeddings, tasks>>
    /\ BatchIdle

\* newFiles.splice(fileIndex, 1): the entry is taken out of `files`
removeFile(fileIndex) ==
    /\ fileIndex \in 1..Len(batch.files)
    /\ batch' = [batch EXCEPT
                    !.files = SubSeq(@, 1, fileIndex - 1)
                                  \o SubSeq(@, fileIndex + 1, Len(@))]
    /\ UNCHANGED <<documents, chunks, embeddings, tasks>>
    /\ BatchIdle

\* the button handler up to its first await: it returns at once without
\* files or while a run is in progress
ProcessFilesStart ==
    /\ batch' = IF Len(batch.files) = 0 \/ batch.isProcessing
                THEN batch
                ELSE NextFile([batch EXCEPT
                                  !.isProcessing = TRUE, !.index = 0,
                                  !.captured = batch.files,
                                  !.processed = <<>>, !.failed = <<>>,
                                  !.previous = [processedFiles |-> batch.processedFiles,
                                                failedFiles |-> batch.failedFiles],
                                  !.trace = <<>>])
    /\ UNCHANGED <<documents, chunks, embeddings, tasks>>
    /\ BatchIdle

\* processFile: the extraction of the text settles
BatchExtract ==
    /\ batch.pc = "extract"
    /\ batch' = IF Throws("extract") THEN Rejected(batch, "extract")
                ELSE Continued(batch, "extract")
    /\ UNCHANGED <<documents, chunks, embeddings, tasks>>
    /\ BatchIdle

\* db.addDocument: documents.put settles
BatchAddDocument ==
    /\ batch.pc = "addDocument"
    /\ tasks[Caller].pc = "idle"
    /\ IF Throws("addDocument") /\ ~CurrentFile.afterWrite
       THEN /\ batch' = Rejected(batch, "addDocument")
            /\ UNCHANGED <<documents, chunks, embeddings, tasks>>
       ELSE /\ documents' = BulkPut(documents,
                                    [k \in {batch.documentId} |-> [id |-> k]])
            /\ EnterSweep(Caller, batch.documentId, "returned")
            /\ UNCHANGED <<batch, chunks, embeddings>>
    /\ BatchIdle

\* db.addChunks: chunks.bulkPut settles
BatchAddChunks ==
    /\ batch.pc = "addChunks"
    /\ tasks[Caller].pc = "idle"
    /\ IF Throws("addChunks") /\ ~CurrentFile.afterWrite
       THEN /\ batch' = Rejected(batch, "addChunks")
            /\ UNCHANGED <<documents, chunks, embeddings, tasks>>
       ELSE /\ chunks' = BulkPut(chunks, [c \in batch.chunkIds |->
                                            [documentId |-> batch.documentId]])
            /\ EnterSweep(Caller, batch.documentId, "returned")
            /\ UNCHANGED <<batch, documents, embeddings>>
    /\ BatchIdle

\* db.addEmbeddings: embeddings.bulkPut settles
BatchAddEmbeddings ==
    /\ batch.pc = "addEmbeddings"
    /\ tasks[Caller].pc = "idle"
    /\ IF Throws("addEmbeddings") /\ ~CurrentFile.afterWrite
       THEN /\ batch' = Rejected(batch, "addEmbeddings")
            /\ UNCHANGED <<documents, chunks, embeddings, tasks>>
       ELSE /\ embeddings' = BulkPut(embeddings, batch.embeddings)
            /\ EnterSweep(Caller, batch.documentId, "returned")
            /\ UNCHANGED <<batch, documents, chunks>>
    /\ BatchIdle

\* an await of the sweep of the store call in progress rejects: the call has
\* made its write, and processFile rejects
BatchStoreRejects ==
    /\ tasks[Caller].pc \in SweepAwaits
    /\ RejectsInSweep
    /\ batch' = Rejected(batch, batch.pc)
    /\ tasks' = [tasks EXCEPT ![Caller] = IdleTask]
    /\ UNCHANGED <<documents, chunks, embeddings>>
    /\ BatchIdle

\* the last await of the sweep resolves, in a call none of whose awaits rejects
BatchSweepEnds ==
    /\ ~RejectsInSweep
    /\ SweepBulkDeleteEmbeddings(Caller)

\* the awaited store call has returned and processFile goes on: to its next
\* statements, or after db.addEmbeddings to `return documentId`
BatchStoreReturns ==
    /\ tasks[Caller].pc = "returned"
    /\ batch' = IF NextStep(batch.pc) = "resolved"
                THEN Resolved(batch, batch.pc)
                ELSE Continued(batch, batch.pc)
    /\ tasks' = [tasks EXCEPT ![Caller] = IdleTask]
    /\ UNCHANGED <<documents, chunks, embeddings>>
    /\ BatchIdle

----------------------------------------------------------------------------
(* VectorSearchService.ensureModelInitialized under concurrent callers *)

EncoderCallers == {"c1", "c2", "c3"}

\* one VectorSearchService: `model` unset, no call of use.load yet
IdleEncoder ==
    [model |-> FALSE, loads |-> 0, pc |-> [c \in EncoderCallers |-> "idle"]]

EncoderIdle == UNCHANGED <<storeVars, concVars, chunkVars, searchVars, llmVars, batch, run>>

\* generateEmbeddings or searchSimilarChunks is called: ensureModelInitialized
\* tests this.model and, when it is unset, awaits tf.setBackend
EnsureModelInitialized(c) ==
    /\ encoder.pc[c] = "idle"
    /\ encoder' = [encoder EXCEPT
                     !.pc[c] = IF encoder.model THEN "embed" ELSE "setBackend"]
    /\ EncoderIdle

\* tf.setBackend resolved: await tf.ready()
BackendSet(c) ==
    /\ encoder.pc[c] = "setBackend"
    /\ encoder' = [encoder EXCEPT !.pc[c] = "ready"]
    /\ EncoderIdle

\* tf.ready resolved: use.load() is called
LoadStarts(c) ==
    /\ encoder.pc[c] = "ready"
    /\ encoder' = [encoder EXCEPT !.pc[c] = "load", !.loads = @ + 1]
    /\ EncoderIdle

\* use.load resolved: this.model is assigned
LoadResolves(c) ==
    /\ encoder.pc[c] = "load"
    /\ encoder' = [encoder EXCEPT !.pc[c] = "embed", !.model = TRUE]
    /\ EncoderIdle

\* this.model.embed(texts) and the return of the caller
Embed(c) ==
    /\ encoder.pc[c] = "embed"
    /\ encoder' = [encoder EXCEPT !.pc[c] = "done"]
    /\ EncoderIdle

----------------------------------------------------------------------------
(* DocumentProcessor.processFile, one run, await by await: the extraction by *)
(* file kind, the progress reports, and the calls of the store              *)

MaxPages == 3
ErrorPlaceholderLength == 38

\* "[Error extracting text from this page]": no newline, no terminator
ErrorPlaceholder == <<Run("err", ErrorPlaceholderLength)>>

\* "[No text could be extracted from this PDF. It may be scanned or contain
\* only images.]"
NoTextSentinel ==
    <<Run("msg", 41), Run("dot", 1), Run("msg", 41), Run("dot", 1), Run("msg", 1)>>

\* a status passed to onProgressUpdate, without its message
Report(isProcessing, progress) == [isProcessing |-> isProcessing, progress |-> progress]

\* what pdf.getPage(i) and page.getTextContent() give for one page: a rejection
\* of one of the two, or the items joined with blanks
PageOutcomes ==
    [fails : {TRUE}, text : {<<>>}]
    \cup [fails : {FALSE},
          text : {<<>>, <<Run("sp", 1)>>, <<Run("a", 9)>>, <<Run("a", 10)>>}]

\* the files processFile is given: loads says whether every call that loads
\* the file resolves (arrayBuffer, getDocument, mammoth, Tesseract, file.text)
\* or one of them rejects
PdfFiles ==
    [kind : {"pdf"}, loads : {TRUE},
     pages : UNION {[1..n -> PageOutcomes] : n \in 0..MaxPages},
     text : {<<>>}, ocr : {<<>>}]
    \cup [kind : {"pdf"}, loads : {FALSE}, pages : {<<>>}, text : {<<>>}, ocr : {<<>>}]

PlainFiles ==
    [kind : {"text", "docx"}, loads : BOOLEAN, pages : {<<>>},
     text : {<<>>, <<Run("a", 10)>>,
             <<Run("a", 600), Run("dot", 1), Run("sp", 600)>>},
     ocr : {<<>>}]

\* ocr: the values of m.progress the logger of the recognizer is given while
\* it recognizes text, in percent and in the order they come; the code takes
\* them as they are, rising or not
ImageFiles ==
    [kind : {"image"}, loads : BOOLEAN, pages : {<<>>},
     text : {<<>>, <<Run("a", 10)>>},
     ocr : {<<>>, <<0, 50, 100>>, <<30, 30>>, <<50, 30>>}]

RunFiles == PdfFiles \cup PlainFiles \cup ImageFiles

\* the number of decimal digits of a page number
RECURSIVE Digits(_)
Digits(i) == IF i < 10 THEN 1 ELSE 1 + Digits(i \div 10)

\* `Page ${i}:`, as long as PageMarkerLength for a page number of one digit
PageMarker(i) == Run("page", PageMarkerLength - 1 + Digits(i))

\* fullText += `Page ${i}:\n${pageText}\n\n`, or the placeholder of the catch block
PageBlock(page, i) ==
    <<PageMarker(i), Run("nl", 1)>>
        \o (IF page.fails THEN ErrorPlaceholder ELSE page.text)
        \o <<Run("nl", 2)>>

\* progress: Math.floor((i / pdf.numPages) * 40), the report that opens page i
PageReport(i, numPages) == Report(TRUE, (i * 40) \div numPages)

\* the logger of Tesseract.recognize: progress 20 + Math.floor(m.progress * 20)
LoggerReport(percent) == Report(TRUE, 20 + (percent * 20) \div 100)

\* the file type createChunks is given: only "pdf" is told apart
ChunkingType(file) == IF file.kind = "pdf" THEN "pdf" ELSE "text"

\* processFile not called yet on this file
IdleRun(file) ==
    [file |-> file, pc |-> "idle", page |-> 0, logged |-> 0, reports |-> <<>>,
     content |-> <<>>, documentId |-> 0, chunks |-> <<>>, error |-> "none",
     before |-> [documents |-> EmptyTable, chunks |-> EmptyTable,
                 embeddings |-> EmptyTable]]

NoFile == [kind |-> "text", loads |-> TRUE, pages |-> <<>>, text |-> <<>>, ocr |-> <<>>]

\* documentId = uuidv4(): an id no stored record has; the uuids of the chunks
\* and of the embeddings are the numbers after it
RunDocumentId == Cardinality(DOMAIN run.before.documents) + 1

RunIdle == UNCHANGED <<lastCall, nextDocId, chunkVars, searchVars, llmVars, batch, encoder>>

\* the awaited calls that load a file, and the first and the last of them for
\* each kind of file
LoadAwaits == {"file.arrayBuffer", "getDocument", "extractRawText", "recognize", "file.text"}

FirstLoadAwait(kind) ==
    CASE kind = "image" -> "recognize"
      [] kind = "text" -> "file.text"
      [] OTHER -> "file.arrayBuffer"

LastLoadAwait(kind) ==
    CASE kind = "pdf" -> "getDocument"
      [] kind = "docx" -> "extractRawText"
      [] kind = "image" -> "recognize"
      [] OTHER -> "file.text"

\* the store call processFile awaits at a position
StoreCallAt(pc) ==
    CASE pc = "documents.put" -> "addDocument"
      [] pc = "chunks.bulkPut" -> "addChunks"
      [] OTHER -> "addEmbeddings"

\* the catch block of processFile: the report of the failure, and the rethrow
Caught(r, step) ==
    [r EXCEPT !.pc = "rejected", !.error = step,
              !.reports = Append(@, Report(FALSE, 0))]

\* processFile once the text is extracted: the report of 50, documentId =
\* uuidv4() and db.addDocument up to its await of documents.put
Ingesting(r, documentId) ==
    [r EXCEPT !.pc = "documents.put",
              !.reports = Append(@, Report(TRUE, 50)),
              !.documentId = documentId]

\* extractTextFromPDF after its loop: the sentinel and its report when no page
\* gave a character that is not white space
PdfExtracted(r, documentId) ==
    IF Trim(r.content) = <<>>
    THEN Ingesting([r EXCEPT !.content = NoTextSentinel,
                             !.reports = Append(@, Report(FALSE, 0))], documentId)
    ELSE Ingesting(r, documentId)

\* the for loop of extractTextFromPDF takes the next page: its report, and
\* the await of pdf.getPage
NextPage(r, documentId) ==
    IF r.page < Len(r.file.pages)
    THEN [r EXCEPT !.page = @ + 1, !.pc = "getPage",
                   !.reports = Append(@, PageReport(r.page + 1, Len(r.file.pages)))]
    ELSE PdfExtracted(r, documentId)

\* an awaited call that loads the file has resolved
Loaded(r, documentId) ==
    CASE r.pc = "file.arrayBuffer" ->
            [r EXCEPT !.pc = IF r.file.kind = "pdf" THEN "getDocument"
                             ELSE "extractRawText"]
      [] r.pc = "getDocument" -> NextPage(r, documentId)
      [] OTHER -> Ingesting([r EXCEPT !.content = r.file.text], documentId)

\* processFile is called: the first report, the file type, and the extraction
\* up to its first await (for an image, after its report of 20)
RunStart ==
    /\ run.pc = "idle"
    /\ run' = [run EXCEPT !.pc = FirstLoadAwait(run.file.kind),
                          !.reports = IF run.file.kind = "image"
                                      THEN <<Report(TRUE, 0), Report(TRUE, 20)>>
                                      ELSE <<Report(TRUE, 0)>>,
                          !.before = [documents |-> documents, chunks |-> chunks,
                                      embeddings |-> embeddings]]
    /\ UNCHANGED <<documents, chunks, embeddings, tasks>>
    /\ RunIdle

\* the recognizer calls the logger with the progress of its recognition
RunLogger ==
    /\ run.pc = "recognize"
    /\ run.logged < Len(run.file.ocr)
    /\ run' = [run EXCEPT !.logged = @ + 1,
                          !.reports = Append(@, LoggerReport(run.file.ocr[run.logged + 1]))]
    /\ UNCHANGED <<documents, chunks, embeddings, tasks>>
    /\ RunIdle

\* an awaited call that loads the file settles; a rejection goes to the catch
\* block of processFile
MutRunExtract ==
    /\ run.pc \in LoadAwaits
    /\ \/ /\ ~run.file.loads
          /\ run' = Caught(run, "extract")
          /\ documents' = BulkPut(documents,
                                  [k \in {RunDocumentId} |-> [id |-> k]])
       \/ /\ run.file.loads \/ run.pc # LastLoadAwait(run.file.kind)
          /\ run.pc = "recognize" => run.logged = Len(run.file.ocr)
          /\ run' = Loaded(run, RunDocumentId)
          /\ UNCHANGED documents
    /\ UNCHANGED <<chunks, embeddings, tasks>>
    /\ RunIdle

RunExtract ==
    /\ run.pc \in LoadAwaits
    /\ \/ /\ ~run.file.loads
          /\ run' = Caught(run, "extract")
          /\ UNCHANGED documents
       \/ /\ run.file.loads \/ run.pc # LastLoadAwait(run.file.kind)
          /\ run.pc = "recognize" => run.logged = Len(run.file.ocr)
          /\ run' = Loaded(run, RunDocumentId)
          /\ UNCHANGED documents
    /\ UNCHANGED <<chunks, embeddings, tasks>>
    /\ RunIdle

\* the page with its block added to fullText
PageDone(r, documentId) ==
    NextPage([r EXCEPT !.content = @ \o PageBlock(r.file.pages[r.page], r.page)],
             documentId)

\* pdf.getPage(i) settles: a rejection is caught in the loop, which adds the
\* placeholder of the page
RunGetPage ==
    /\ run.pc = "getPage"
    /\ \/ /\ run.file.pages[run.page].fails
          /\ run' = PageDone(run, RunDocumentId)
       \/ run' = [run EXCEPT !.pc = "getTextContent"]
    /\ UNCHANGED <<documents, chunks, embeddings, tasks>>
    /\ RunIdle

\* page.getTextContent() settles: the text of the page, or the placeholder
RunGetTextContent ==
    /\ run.pc = "getTextContent"
    /\ run' = PageDone(run, RunDocumentId)
    /\ UNCHANGED <<documents, chunks, embeddings, tasks>>
    /\ RunIdle

\* db.addDocument: documents.put settles, and on a rejection the catch block
\* of processFile reports and rethrows
RunAddDocument ==
    /\ run.pc = "documents.put"
    /\ tasks[Caller].pc = "idle"
    /\ \/ /\ documents' = BulkPut(documents,
                                  [k \in {run.documentId} |-> [id |-> k]])
          /\ EnterSweep(Caller, run.documentId, "returned")
          /\ UNCHANGED run
       \/ /\ run' = Caught(run, "addDocument")
          /\ UNCHANGED <<documents, tasks>>
    /\ UNCHANGED <<chunks, embeddings>>
    /\ RunIdle

\* db.addDocument has returned: the report of 75, createChunks and db.addChunks
\* up to its await of chunks.bulkPut
RunChunks ==
    /\ run.pc = "documents.put"
    /\ tasks[Caller].pc = "returned"
    /\ run' = [run EXCEPT !.pc = "chunks.bulkPut",
                          !.reports = Append(@, Report(TRUE, 75)),
                          !.chunks = createChunks(run.documentId, run.content,
                                                  ChunkingType(run.file),
                                                  run.documentId)]
    /\ tasks' = [tasks EXCEPT ![Caller] = IdleTask]
    /\ UNCHANGED <<documents, chunks, embeddings>>
    /\ RunIdle

\* db.addChunks: chunks.bulkPut settles
RunAddChunks ==
    /\ run.pc = "chunks.bulkPut"
    /\ tasks[Caller].pc = "idle"
    /\ \/ /\ chunks' = BulkPut(chunks,
                          [c \in {run.chunks[i].id : i \in 1..Len(run.chunks)} |->
                              run.chunks[c - run.documentId]])
          /\ EnterSweep(Caller, run.documentId, "returned")
          /\ UNCHANGED run
       \/ /\ run' = Caught(run, "addChunks")
          /\ UNCHANGED <<chunks, tasks>>
    /\ UNCHANGED <<documents, embeddings>>
    /\ RunIdle

\* db.addChunks has returned: the report of 90, the placeholder embeddings and
\* db.addEmbeddings up to its await of embeddings.bulkPut
RunEmbeds ==
    /\ run.pc = "chunks.bulkPut"
    /\ tasks[Caller].pc = "returned"
    /\ run' = [run EXCEPT !.pc = "embeddings.bulkPut",
                          !.reports = Append(@, Report(TRUE, 90))]
    /\ tasks' = [tasks EXCEPT ![Caller] = IdleTask]
    /\ UNCHANGED <<documents, chunks, embeddings>>
    /\ RunIdle

\* db.addEmbeddings: embeddings.bulkPut settles
RunAddEmbeddings ==
    /\ run.pc = "embeddings.bulkPut"
    /\ tasks[Caller].pc = "idle"
    /\ \/ /\ embeddings' = BulkPut(embeddings,
                              EmbeddingsFor({run.chunks[i].id : i \in 1..Len(run.chunks)},
                                            run.documentId + Len(run.chunks)))
          /\ EnterSweep(Caller, run.documentId, "returned")
          /\ UNCHANGED run
       \/ /\ run' = Caught(run, "addEmbeddings")
          /\ UNCHANGED <<embeddings, tasks>>
    /\ UNCHANGED <<documents, chunks>>
    /\ RunIdle

\* an await of the sweep of the store call in progress rejects, after the
\* write of the call: the catch block of processFile reports and rethrows
RunStoreRejects ==
    /\ tasks[Caller].pc \in SweepAwaits
    /\ run' = Caught(run, StoreCallAt(run.pc))
    /\ tasks' = [tasks EXCEPT ![Caller] = IdleTask]
    /\ UNCHANGED <<documents, chunks, embeddings>>
    /\ RunIdle

\* db.addEmbeddings has returned: the last report and `return documentId`
RunReturn ==
    /\ run.pc = "embeddings.bulkPut"
    /\ tasks[Caller].pc = "returned"
    /\ run' = [run EXCEPT !.pc = "resolved", !.reports = Append(@, Report(FALSE, 100))]
    /\ tasks' = [tasks EXCEPT ![Caller] = IdleTask]
    /\ UNCHANGED <<documents, chunks, embeddings>>
    /\ RunIdle

----------------------------------------------------------------------------

\* no store call made yet, no caller running
CallersIdle ==
    /\ lastCall = NoStoreCall
    /\ tasks = [t \in Tasks |-> IdleTask]
    /\ nextDocId = 1

\* no batch dropped on the uploader, no caller of the encoder
RunsIdle ==
    /\ batch = IdleBatch(<<>>)
    /\ encoder = IdleEncoder
    /\ run = IdleRun(NoFile)

StoreInit ==
    /\ documents = EmptyTable
    /\ chunks = EmptyTable
    /\ embeddings = EmptyTable
    /\ CallersIdle

ChunkIdle ==
    /\ ckInput = [documentId |-> 1, content |-> <<>>, fileType |-> "text"]
    /\ ckResult = [returned |-> FALSE, chunks |-> <<>>, repeated |-> FALSE, again |-> <<>>]

SearchIdle ==
    /\ srInput = [queryVector |-> <<1, 0>>, limit |-> DefaultLimit]
    /\ srResult = NoSearch

\* the constructor of the provider-based ChatService over the items of storage
ProviderServiceConstructed(storage) ==
    /\ llmProvider = ProviderFromLocalStorage(storage, NoProvider).llmProvider
    /\ activeProvider = ProviderFromLocalStorage(storage, NoProvider).activeProvider
    /\ availableModels = <<>>

\* both ChatService constructors, whatever localStorage held
LLMConstructed ==
    /\ ProviderServiceConstructed(localStorage)
    /\ llmCall = NoCall
    /\ pending = IdleCall
    /\ chatService = constructor(localStorage)

LLMIdle ==
    /\ localStorage = EmptyStorage
    /\ LLMConstructed

Init == StoreInit /\ ChunkIdle /\ SearchIdle /\ LLMIdle /\ RunsIdle

\* one caller: a call is made when the one before it has returned
Next ==
    \/ \E d \in DocIds : AddDocument(Caller, [id |-> d])
    \/ \E records \in Tables(ChunkIds, [documentId : DocIds]) :
          AddChunks(Caller, records)
    \/ \E records \in Tables(EmbIds, [chunkId : ChunkIds]) :
          AddEmbeddings(Caller, records)
    \/ \E d \in DocIds : RemoveDocument(Caller, d)
    \/ SweepDocumentIds(Caller)
    \/ SweepOrphanedChunks(Caller)
    \/ SweepBulkDeleteChunks(Caller)
    \/ SweepAllChunkIds(Caller)
    \/ SweepOrphanedEmbeddings(Caller)
    \/ SweepBulkDeleteEmbeddings(Caller)

Spec == Init /\ [][Next]_vars

ConcInit == StoreInit /\ ChunkIdle /\ SearchIdle /\ LLMIdle /\ RunsIdle

ConcNext ==
    \E t \in Tasks :
        \/ ProcessFileAddDocument(t)
        \/ ProcessFileAddChunks(t)
        \/ ProcessFileAddEmbeddings(t)
        \/ \E d \in 1..MaxFiles : RemoveDocumentDelete(t, d)
        \/ SweepDocumentIds(t)
        \/ SweepOrphanedChunks(t)
        \/ SweepBulkDeleteChunks(t)
        \/ SweepAllChunkIds(t)
        \/ SweepOrphanedEmbeddings(t)
        \/ SweepBulkDeleteEmbeddings(t)

ConcSpec == ConcInit /\ [][ConcNext]_vars

ChunkInit ==
    /\ StoreInit
    /\ RunsIdle
    /\ SearchIdle
    /\ LLMIdle
    /\ ckInput \in [documentId : {1}, content : Texts(MaxFragments), fileType : FileTypes]
    /\ ckResult = [returned |-> FALSE, chunks |-> <<>>, repeated |-> FALSE, again |-> <<>>]

ChunkNext ==
    \/ CreateChunksCall
    \/ CreateChunksAgain

ChunkSpec == ChunkInit /\ [][ChunkNext]_vars

\* the stores a search is made on, with one embedding per chunk at most: up
\* to MaxEmbs embeddings of up to MaxChunks chunks, stored or gone, with any
\* vectors; and three stored chunks, each with its embedding, with any vectors
SearchStores ==
    { [chunks |-> chs, embeddings |-> embs] :
        chs \in Tables(ChunkIds, [documentId : {1}]),
        embs \in { t \in Tables(EmbIds, [chunkId : ChunkIds, vector : Vectors]) :
                     \A e, f \in DOMAIN t : t[e].chunkId = t[f].chunkId => e = f } }
    \cup
    { [chunks |-> [c \in {1, 2, 3} |-> [documentId |-> 1]],
       embeddings |-> [e \in {1, 2, 3} |-> [chunkId |-> e, vector |-> vectors[e]]]] :
        vectors \in [{1, 2, 3} -> Vectors] }

SearchInit ==
    /\ documents = [d \in {1} |-> [id |-> d]]
    /\ \E store \in SearchStores :
          /\ chunks = store.chunks
          /\ embeddings = store.embeddings
    /\ CallersIdle
    /\ RunsIdle
    /\ ChunkIdle
    /\ LLMIdle
    /\ srInput \in [queryVector : QueryVectors, limit : (0..MaxLimit) \cup {DefaultLimit}]
    /\ srResult = NoSearch

\* one search, and one removeDocument of another caller that may run between
\* the reads of the search
SearchNext ==
    \/ VectorSearchEmbeddings
    \/ VectorSearchChunks
    \/ DatabaseSearchEmbeddings
    \/ DatabaseSearchChunks
    \/ \E d \in DOMAIN documents : RemoveDocumentDelete(Caller, d)
    \/ SweepDocumentIds(Caller)
    \/ SweepOrphanedChunks(Caller)
    \/ SweepBulkDeleteChunks(Caller)
    \/ SweepAllChunkIds(Caller)
    \/ SweepOrphanedEmbeddings(Caller)
    \/ SweepBulkDeleteEmbeddings(Caller)

SearchSpec == SearchInit /\ [][SearchNext]_vars

\* ChatService built over a store holding one document, with no chunk or with
\* one embedded chunk, and over whatever the application left in localStorage
LLMInit ==
    /\ documents = [d \in {1} |-> [id |-> d, context |-> "pensions"]]
    /\ chunks \in {EmptyTable, [c \in {1} |-> [documentId |-> 1]]}
    /\ embeddings = [e \in DOMAIN chunks |-> [chunkId |-> e, vector |-> <<1, 0>>]]
    /\ CallersIdle
    /\ RunsIdle
    /\ ChunkIdle
    /\ SearchIdle
    /\ localStorage \in [active_llm_provider : {""} \cup ProviderTypes,
                         openai_api_key : {""} \cup ApiKeys,
                         gemini_api_key : {""} \cup ApiKeys,
                         active_llm_model : {<<>>} \cup SelectableModels]
    /\ ProviderServiceConstructed(localStorage)
    /\ llmCall = NoCall
    /\ pending = IdleCall
    /\ chatService = constructor(EmptyStorage)

LLMNext ==
    \/ \E key \in ApiKeys : SetOpenAIApiKey(key)
    \/ \E key \in ApiKeys : SetGeminiApiKey(key)
    \/ \E provider \in ProviderTypes : SetActiveProvider(provider)
    \/ \E modelId \in {<<>>} \cup SelectableModels : SetActiveModel(modelId)
    \/ FetchAvailableModels
    \/ \E response \in ListingResponsesOf(pending.provider) :
            FetchModelsResponds(response)
    \/ \E response \in ListingResponsesOf(pending.provider) :
            FetchModelsParses(response)
    \/ \E contextId \in ContextIds : ProcessQuery(<<1, 1>>, contextId)
    \/ \E resolves \in BOOLEAN : ProcessQueryInitializes(resolves)
    \/ \E resolves \in BOOLEAN : ProcessQueryEmbeds(resolves)
    \/ ProcessQueryEmbeddings
    \/ ProcessQueryChunks
    \/ ProcessQuerySources
    \/ \E response \in GenerationResponsesOf(pending.provider) :
            ProcessQueryResponds(response)
    \/ \E response \in GenerationResponsesOf(pending.provider) :
            ProcessQueryParses(response)

LLMSpec == LLMInit /\ [][LLMNext]_vars

\* the stores of the keyword search: no document; a pensions document with
\* one chunk; a pensions document and a legal document with one chunk each
ChatStores ==
    { [documents |-> EmptyTable, chunks |-> EmptyTable],
      [documents |-> [d \in {1} |-> [id |-> d, context |-> "pensions"]],
       chunks |-> [c \in {1} |-> [documentId |-> 1, content |-> {"pension", "the"}]]],
      [documents |-> [d \in {1, 2} |->
                        [id |-> d, context |-> IF d = 1 THEN "pensions" ELSE "legal"]],
       chunks |-> [c \in {1, 2} |->
                        [documentId |-> c,
                         content |-> IF c = 1 THEN {"pension", "the"}
                                     ELSE {"contract", "pension"}]]] }

\* the ChatService of lib/chatService.ts built over one of these stores and
\* over whatever the application left in localStorage
ChatInit ==
    /\ \E store \in ChatStores :
          /\ documents = store.documents
          /\ chunks = store.chunks
    /\ embeddings = [e \in DOMAIN chunks |-> [chunkId |-> e, vector |-> <<1, 0>>]]
    /\ CallersIdle
    /\ RunsIdle
    /\ ChunkIdle
    /\ SearchIdle
    /\ localStorage \in [active_llm_provider : {""} \cup ProviderTypes,
                         openai_api_key : {""} \cup ApiKeys,
                         gemini_api_key : {""} \cup ApiKeys,
                         active_llm_model : {<<>>} \cup SelectableModels]
    /\ ProviderServiceConstructed(EmptyStorage)
    /\ llmCall = NoCall
    /\ pending = IdleCall
    /\ chatService = constructor(localStorage)

ChatNext ==
    \/ \E key \in ApiKeys : setOpenAIApiKey(key)
    \/ \E key \in ApiKeys : setGeminiApiKey(key)
    \/ \E provider \in ProviderTypes : setActiveProvider(provider)
    \/ \E modelId \in {<<>>} \cup SelectableModels : setActiveModel(modelId)
    \/ fetchAvailableModelsCall
    \/ \E listing \in ListingResponses(OpenAIListings) :
            fetchOpenAIModelsResponds(listing)
    \/ \E listing \in ListingResponses(OpenAIListings) :
            fetchOpenAIModelsParses(listing)
    \/ \E keywords \in Queries, contextId \in ContextIds :
            processQuery(keywords, contextId)
    \/ searchDocuments
    \/ searchChunks
    \/ sourcesRead
    \/ \E response \in generationResponsesOf(pending.service) :
            generationResponds(response)
    \/ \E response \in generationResponsesOf(pending.service) :
            generationParses(response)

ChatSpec == ChatInit /\ [][ChatNext]_vars

\* the uploader as it is mounted, over an empty store
BatchInit ==
    /\ StoreInit
    /\ ChunkIdle
    /\ SearchIdle
    /\ LLMIdle
    /\ encoder = IdleEncoder
    /\ run = IdleRun(NoFile)
    /\ batch = IdleBatch(<<>>)

BatchNext ==
    \/ \E acceptedFiles \in Batches : onDrop(acceptedFiles)
    \/ \E fileIndex \in 1..MaxBatch : removeFile(fileIndex)
    \/ ProcessFilesStart
    \/ BatchExtract
    \/ BatchAddDocument
    \/ BatchAddChunks
    \/ BatchAddEmbeddings
    \/ BatchStoreRejects
    \/ BatchStoreReturns
    \/ SweepDocumentIds(Caller)
    \/ SweepOrphanedChunks(Caller)
    \/ SweepBulkDeleteChunks(Caller)
    \/ SweepAllChunkIds(Caller)
    \/ SweepOrphanedEmbeddings(Caller)
    \/ BatchSweepEnds

BatchSpec == BatchInit /\ [][BatchNext]_vars

\* one VectorSearchService and the callers that may use it at once
EncoderInit ==
    /\ StoreInit
    /\ ChunkIdle
    /\ SearchIdle
    /\ LLMIdle
    /\ batch = IdleBatch(<<>>)
    /\ encoder = IdleEncoder
    /\ run = IdleRun(NoFile)

EncoderNext ==
    \E c \in EncoderCallers :
        \/ EnsureModelInitialized(c)
        \/ BackendSet(c)
        \/ LoadStarts(c)
        \/ LoadResolves(c)
        \/ Embed(c)

EncoderSpec == EncoderInit /\ [][EncoderNext]_vars

\* processFile about to be called on one file, over an empty store or over a
\* store that holds a document with its chunk and embedding
FileInit ==
    /\ \E held \in {{}, {1}} :
          /\ documents = [d \in held |-> [id |-> d]]
          /\ chunks = [c \in held |-> [documentId |-> c]]
          /\ embeddings = [e \in held |-> [chunkId |-> e]]
    /\ CallersIdle
    /\ ChunkIdle
    /\ SearchIdle
    /\ LLMIdle
    /\ batch = IdleBatch(<<>>)
    /\ encoder = IdleEncoder
    /\ run \in {IdleRun(file) : file \in RunFiles}

FileNext ==
    \/ RunStart
    \/ RunLogger
    \/ RunExtract
    \/ RunGetPage
    \/ RunGetTextContent
    \/ RunAddDocument
    \/ RunChunks
    \/ RunAddChunks
    \/ RunEmbeds
    \/ RunAddEmbeddings
    \/ RunStoreRejects
    \/ RunReturn
    \/ SweepDocumentIds(Caller)
    \/ SweepOrphanedChunks(Caller)
    \/ SweepBulkDeleteChunks(Caller)
    \/ SweepAllChunkIds(Caller)
    \/ SweepOrphanedEmbeddings(Caller)
    \/ SweepBulkDeleteEmbeddings(Caller)

FileSpec == FileInit /\ [][FileNext]_vars

----------------------------------------------------------------------------
\* the chunks document lastCall.documentId owned when the call was made
OwnedChunks == ChunksOf(lastCall.documentId, lastCall.before.chunks)

\* C1: cascade integrity. Once removeDocument(D) has returned, the store holds
\* no chunk whose documentId is D and no embedding whose chunkId is a chunk
\* that belonged to D when the call was made.
CascadeIntegrity ==
    (lastCall.op = "removeDocument" /\ NoCallInProgress) =>
        /\ ChunksOf(lastCall.documentId, chunks) = {}
        /\ EmbeddingsOf(OwnedChunks, embeddings) = {}

\* a removeDocument(D) returned for a D that owned chunks with embeddings
CascadeWitness ==
    /\ lastCall.op = "removeDocument"
    /\ NoCallInProgress
    /\ OwnedChunks # {}
    /\ EmbeddingsOf(OwnedChunks, lastCall.before.embeddings) # {}
    /\ documents # EmptyTable

\* C2: referential integrity. At the return of every non-overlapping mutating
\* call, each stored chunk's documentId is a stored document and each stored
\* embedding's chunkId is a stored chunk.
ReferentialIntegrity ==
    NoCallInProgress =>
        /\ \A c \in DOMAIN chunks : chunks[c].documentId \in DOMAIN documents
        /\ \A e \in DOMAIN embeddings : embeddings[e].chunkId \in DOMAIN chunks

\* an addEmbeddings that put an embedding of an absent chunk has returned: its
\* sweep deleted that embedding and kept the one whose chunk is stored
ReferentialWitness ==
    /\ lastCall.op = "addEmbeddings"
    /\ NoCallInProgress
    /\ lastCall.targets \ DOMAIN embeddings # {}
    /\ chunks # EmptyTable
    /\ embeddings # EmptyTable

\* C3: the sweep is atomic per invocation. Under any interleaving of concurrent
\* mutating calls at their awaits, a chunk is deleted only if its document is
\* absent when it is deleted, and an embedding only if its chunk is absent then.
SweepDeletesOnlyOrphans ==
    [][/\ \A c \in DOMAIN chunks \ DOMAIN chunks' :
             chunks[c].documentId \notin DOMAIN documents
       /\ \A e \in DOMAIN embeddings \ DOMAIN embeddings' :
             embeddings[e].chunkId \notin DOMAIN chunks]_vars

----------------------------------------------------------------------------
IsBlank(t) == \A i \in 1..Len(t) : IsWhitespace(t[i])

\* C4: minimum chunk guarantee. createChunks returns at least one chunk for
\* every text and file kind; for an empty or whitespace-only text it returns
\* exactly one chunk, tagged 'fallback'.
MinimumChunkGuarantee ==
    ckResult.returned =>
        /\ Len(ckResult.chunks) >= 1
        /\ IsBlank(ckInput.content) =>
              /\ Len(ckResult.chunks) = 1
              /\ ckResult.chunks[1].chunkType = "fallback"

\* createChunks has returned for a whitespace-only text longer than 1000
\* characters, the one that also enters the sentence tier
MinimumChunkWitness ==
    /\ ckResult.returned
    /\ IsBlank(ckInput.content)
    /\ TextLength(ckInput.content) > DensifyLength
    /\ Len(ckResult.chunks) = 1

\* C5: every chunk createChunks returns, of any chunkType, has a
\* content that is not empty after trimming and is at least 10 characters long.
EveryChunkAtLeastTen ==
    ckResult.returned =>
        \A i \in 1..Len(ckResult.chunks) :
            /\ Trim(ckResult.chunks[i].content) # <<>>
            /\ TextLength(ckResult.chunks[i].content) >= MinParagraphLength

----------------------------------------------------------------------------
\* the similarity between the query vector and the embedding of chunk c, among
\* the embeddings the search read
ChunkSimilarity(c) ==
    LET e == CHOOSE x \in DOMAIN srResult.read : srResult.read[x].chunkId = c
    IN  Similarity(srInput.queryVector, srResult.read[e].vector)

\* C6: similarity ordering. The chunks searchSimilarChunks returns are in
\* non-increasing order of the similarity between the query vector and each
\* chunk's embedding.
SimilarityOrdering ==
    (srResult.by = "VectorSearchService" /\ srResult.pc = "returned") =>
        \A i, j \in 1..Len(srResult.chunks) :
            i < j => ~Greater(ChunkSimilarity(srResult.chunks[j].id),
                              ChunkSimilarity(srResult.chunks[i].id))

\* the embeddings read that are more similar to the query than embedding e
MoreSimilar(e) ==
    {f \in DOMAIN srResult.read :
        Greater(Similarity(srInput.queryVector, srResult.read[f].vector),
                Similarity(srInput.queryVector, srResult.read[e].vector))}

\* C7: VectorSearchService.searchSimilarChunks returns at most `limit` chunks,
\* each stored when the search returns and each the owning chunk of an
\* embedding that fewer than `limit` of the embeddings read beat in similarity.
SearchTopLimit ==
    (srResult.by = "VectorSearchService" /\ srResult.pc = "returned") =>
        /\ Len(srResult.chunks) <= srInput.limit
        /\ \A i \in 1..Len(srResult.chunks) :
              /\ srResult.chunks[i].id \in srResult.stored
              /\ \E e \in DOMAIN srResult.read :
                    /\ srResult.read[e].chunkId = srResult.chunks[i].id
                    /\ Cardinality(MoreSimilar(e)) < srInput.limit

\* a search returned `limit` chunks with more embeddings read than the limit:
\* an embedding was left out for being less similar although its chunk is
\* stored, and it is parallel to an embedding that was kept
SearchTopLimitWitness ==
    /\ srResult.by = "VectorSearchService"
    /\ srResult.pc = "returned"
    /\ srInput.limit >= 1
    /\ Len(srResult.chunks) = srInput.limit
    /\ \E e \in DOMAIN srResult.read :
          /\ Cardinality(MoreSimilar(e)) >= srInput.limit
          /\ srResult.read[e].chunkId \in srResult.stored
          /\ \A i \in 1..Len(srResult.chunks) :
                srResult.chunks[i].id # srResult.read[e].chunkId
          /\ srResult.read[e].vector = <<1, 1>>
          /\ \E f \in MoreSimilar(e) : srResult.read[f].vector = <<3, 3>>

\* the default model list of a backend
DefaultModels(backend) ==
    IF backend = "openai" THEN OpenAIDefaultModels ELSE GeminiDefaultModels

\* the model-listing call failed: network error, non-OK status, unparsable
\* body, or a body without the list
ListingFailed(response) ==
    \/ response.rejects
    \/ ~response.ok
    \/ ~response.parses
    \/ ~response.hasList

\* C8: provider fallback. For each backend, whenever fetchModels is called it
\* does not raise, and if the model-listing network call failed (network
\* error, non-OK status, unparsable body) the models it returns are that
\* backend's fixed default list of three models.
ProviderFallback ==
    (llmCall.op = "fetchAvailableModels" /\ llmCall.backend # "none")
        => /\ ~llmCall.raised
           /\ availableModels = llmCall.models
           /\ ListingFailed(llmCall.response)
                => /\ llmCall.models = DefaultModels(llmCall.backend)
                   /\ Len(llmCall.models) > 0

\* the Gemini listing answered 200 with an unparsable body, and the default
\* Gemini models are the available models
ProviderFallbackWitness ==
    /\ llmCall.op = "fetchAvailableModels"
    /\ llmCall.backend = "gemini"
    /\ llmCall.response.ok
    /\ ~llmCall.response.parses
    /\ availableModels = GeminiDefaultModels

\* the backend call of generateAnswer failed: the call rejected, the status
\* was not OK, or the body was malformed (not JSON, no choices[0], or a
\* message without content)
GenerationFailed(backend, response) ==
    IF backend = "openai"
    THEN \/ response.rejects
         \/ ~response.ok
         \/ ~response.parses
         \/ ~response.hasChoice
         \/ ~response.hasContent
    ELSE response.rejects \/ response.textThrows

\* the detail the failure came with: the message of the network or SDK error,
\* the error message of the backend or else the status text, or the message
\* of the error met on reading a malformed body
ErrorDetail(backend, response) ==
    IF backend = "gemini" THEN response.error
    ELSE IF response.rejects THEN response.error
    ELSE IF ~response.parses THEN response.thrown
    ELSE IF ~response.ok
    THEN IF response.errorMessage # "" THEN response.errorMessage
         ELSE response.statusText
    ELSE response.thrown

FallbackIntroduction(backend) ==
    IF backend = "openai" THEN OpenAIFallback ELSE GeminiFallback

\* C9: for each backend, generateAnswer never raises to processQuery, which
\* then returns the answer together with the sources of the relevant chunks;
\* when the backend call failed (network, non-OK status such as auth or rate
\* limit, malformed response) the answer is a string, the backend's fallback
\* text followed by the error detail.
GenerateAnswerNeverRaises ==
    (llmCall.op = "processQuery" /\ llmCall.request.sent)
        => /\ ~llmCall.raised
           /\ Len(llmCall.sources) > 0
           /\ \A i \in 1..Len(llmCall.sources) :
                llmCall.sources[i].chunkId \in DOMAIN chunks
           /\ GenerationFailed(llmCall.request.backend, llmCall.response)
                => /\ llmCall.defined
                   /\ Len(llmCall.answer) > Len(FallbackIntroduction(llmCall.request.backend))
                   /\ SubSeq(llmCall.answer, 1,
                             Len(FallbackIntroduction(llmCall.request.backend)))
                        = FallbackIntroduction(llmCall.request.backend)
                   /\ llmCall.answer[Len(llmCall.answer)]
                        = ErrorDetail(llmCall.request.backend, llmCall.response)

\* the fixed default model id of a backend
DefaultModel(backend) == IF backend = "openai" THEN Gpt4o ELSE Gemini15Flash

\* C10: whatever setActiveProvider, setActiveModel and the set-API-key
\* operations did before, generateAnswer sends the request with the model id
\* selected at the time of the call (localStorage's active_llm_model), and
\* with the backend's default model id only when none is selected.
SelectedModelSent ==
    (llmCall.op = "processQuery" /\ llmCall.request.sent)
        => llmCall.request.model =
              IF llmCall.selected # <<>> THEN llmCall.selected
              ELSE DefaultModel(llmCall.request.backend)

\* no stored document is tagged with the context id
NoDocumentOfContext(contextId) ==
    \A d \in DOMAIN documents : documents[d].context # contextId

\* C11: orchestrator empty path. When processQuery is called with a context
\* id that no stored document is tagged with and returns, it returns the
\* fixed 'no relevant information' answer with no sources, and has called no
\* provider: neither the models endpoint nor the generation endpoint,
\* whatever the store holds for other contexts.
EmptyContextPath ==
    (/\ llmCall.op = "processQuery"
     /\ llmCall.contextId # ""
     /\ NoDocumentOfContext(llmCall.contextId)
     /\ ~llmCall.raised)
        => /\ llmCall.answer = NoInformation
           /\ llmCall.sources = <<>>
           /\ ~llmCall.request.sent
           /\ ~llmCall.listed

\* C12: context filter. When processQuery is given a context id and returns,
\* every source it returns is a chunk of a stored document whose
\* metadata.context is that context id.
SourcesOfContext ==
    (llmCall.op = "processQuery" /\ llmCall.contextId # "" /\ ~llmCall.raised)
        => \A i \in 1..Len(llmCall.sources) :
              /\ llmCall.sources[i].documentId \in DOMAIN documents
              /\ documents[llmCall.sources[i].documentId].context = llmCall.contextId

\* C13: empty retrieval. Whenever the retrieval of processQuery yields no
\* chunk, processQuery returns normally the 'no relevant information' answer
\* with no sources, and generateAnswer is not invoked: no request is sent.
EmptyRetrieval ==
    (llmCall.op = "processQuery" /\ llmCall.searched /\ llmCall.relevant = 0)
        => /\ ~llmCall.raised
           /\ llmCall.defined
           /\ llmCall.answer[1] = "I couldn't find any relevant information in the uploaded documents. Please try a different query or upload more documents."
           /\ Len(llmCall.answer) = 1
           /\ llmCall.sources = <<>>
           /\ ~llmCall.request.sent

\* the store holds chunks of the context asked for, and none scored above
\* zero for the query: the fixed answer came back without a request
EmptyRetrievalWitness ==
    /\ llmCall.op = "processQuery"
    /\ llmCall.searched
    /\ llmCall.relevant = 0
    /\ llmCall.contextId = "pensions"
    /\ \E c \in DOMAIN chunks : documents[chunks[c].documentId].context = "pensions"
    /\ llmCall.answer = NoInformation
    /\ ~llmCall.request.sent

\* C14: provider configuration precondition. If the active provider has no
\* API key, or no model is selected when processQuery is called, processQuery
\* raises before any network call (no models listing, no generation request)
\* and so never goes on with a model picked in place of the selection.
ConfigurationPrecondition ==
    (/\ llmCall.op = "processQuery"
     /\ \/ ~llmCall.keyed
        \/ llmCall.selected = <<>>)
        => /\ llmCall.raised
           /\ ~llmCall.listed
           /\ ~llmCall.request.sent

----------------------------------------------------------------------------
(* The batch of the uploader *)

\* the place of a trace entry in the pipeline of one file
StepRank(step) ==
    CASE step = "extract" -> 1
      [] step = "addDocument" -> 2
      [] step = "createChunks" -> 3
      [] step = "addChunks" -> 4
      [] step = "embed" -> 5
      [] step = "addEmbeddings" -> 6
      [] OTHER -> 7

Settles(entry) == entry.step \in {"resolved", "rejected"}

\* C15: batch ingestion is sequential: no step of file k+1 happens before the
\* processFile of file k has resolved or rejected, and the steps of one file
\* happen in the order extract, store document, chunk, store chunks, embed,
\* store embeddings, none of them skipped.
SequentialIngestion ==
    \A j \in DOMAIN batch.trace :
        LET b == batch.trace[j]
        IN  /\ \A i \in 1..(j - 1) :
                  LET a == batch.trace[i]
                  IN  /\ a.file <= b.file
                      /\ a.file = b.file => StepRank(a.step) < StepRank(b.step)
            /\ b.file > 1 =>
                  \E i \in 1..(j - 1) :
                      batch.trace[i].file = b.file - 1 /\ Settles(batch.trace[i])
            /\ ~Settles(b) =>
                  \A r \in 1..(StepRank(b.step) - 1) :
                      \E i \in 1..(j - 1) :
                          /\ batch.trace[i].file = b.file
                          /\ StepRank(batch.trace[i].step) = r

\* a batch of two files has been ingested, both pipelines run to their end
SequentialIngestionWitness ==
    /\ batch.pc = "returned"
    /\ Len(batch.captured) = 2
    /\ Len(batch.processed) = 2
    /\ \E j \in DOMAIN batch.trace :
          batch.trace[j] = [file |-> 2, step |-> "addEmbeddings"]

\* the names of the first k files of the batch whose pipeline does not throw
ProcessedNames[k \in 0..MaxBatch + 1] ==
    IF k = 0 \/ k > Len(batch.captured) THEN <<>>
    ELSE IF batch.captured[k].failsAt = "none"
         THEN Append(ProcessedNames[k - 1], batch.captured[k].name)
         ELSE ProcessedNames[k - 1]

\* the names and messages of the first k files of the batch whose pipeline throws
FailedEntries[k \in 0..MaxBatch + 1] ==
    IF k = 0 \/ k > Len(batch.captured) THEN <<>>
    ELSE IF batch.captured[k].failsAt # "none"
         THEN Append(FailedEntries[k - 1], [name |-> batch.captured[k].name,
                                            error |-> batch.captured[k].failsAt])
         ELSE FailedEntries[k - 1]

\* C16: a failing file does not stop the batch: when processFiles returns, every
\* file of the batch it started with has been attempted and has settled exactly
\* once; the processed list is what it was before the run followed by the
\* names of the files that went through, and the failed list what it was
\* followed by the names and error messages of the files that threw, so that
\* every file of the batch is added to exactly one of the two lists.
BatchRunsToTheEnd ==
    (batch.pc = "returned" /\ batch.captured # <<>>) =>
        /\ \A k \in DOMAIN batch.captured :
              /\ \E i \in DOMAIN batch.trace :
                    batch.trace[i] = [file |-> k, step |-> "extract"]
              /\ Cardinality({i \in DOMAIN batch.trace :
                                 batch.trace[i].file = k /\ Settles(batch.trace[i])}) = 1
        /\ batch.processedFiles
              = batch.previous.processedFiles \o ProcessedNames[Len(batch.captured)]
        /\ batch.failedFiles
              = batch.previous.failedFiles \o FailedEntries[Len(batch.captured)]
        /\ Len(ProcessedNames[Len(batch.captured)])
              + Len(FailedEntries[Len(batch.captured)]) = Len(batch.captured)

\* a second run, after a run that left a name in each list: its first file
\* threw in the sweep of addChunks and its second file went through
BatchRunsToTheEndWitness ==
    /\ batch.pc = "returned"
    /\ Len(batch.captured) = 2
    /\ batch.captured[1].failsAt = "addChunks"
    /\ batch.captured[1].afterWrite
    /\ Len(batch.previous.processedFiles) + Len(batch.previous.failedFiles) = 1
    /\ Len(batch.failedFiles) = Len(batch.previous.failedFiles) + 1
    /\ batch.processed = <<batch.captured[2].name>>

\* processFile has just returned the id of the document it stored
JustResolved ==
    /\ batch.trace # <<>>
    /\ batch.trace[Len(batch.trace)].step = "resolved"

\* C20: after a successful processFile every chunk stored for the new document
\* owns exactly one stored embedding, and every embedding written in that pass
\* is stored and references one of those chunks.
OneEmbeddingPerChunk ==
    JustResolved =>
        /\ \A c \in ChunksOf(batch.documentId, chunks) :
              Cardinality(EmbeddingsOf({c}, embeddings)) = 1
        /\ \A e \in DOMAIN batch.embeddings :
              /\ e \in DOMAIN embeddings
              /\ embeddings[e].chunkId \in ChunksOf(batch.documentId, chunks)

\* the second file of a batch has been ingested with two chunks
OneEmbeddingPerChunkWitness ==
    /\ JustResolved
    /\ batch.pc = "returned"
    /\ batch.index = 2
    /\ Len(batch.processed) = 2
    /\ Cardinality(ChunksOf(batch.documentId, chunks)) = 2
    /\ Cardinality(DOMAIN batch.embeddings) = 2

----------------------------------------------------------------------------
(* The encoder *)

\* C17: the embedding model is initialised at most once: callers that arrive
\* before the load has finished trigger use.load exactly once between them.
ModelLoadedOnce == encoder.loads <= 1

----------------------------------------------------------------------------
(* Sentence groups and repeated chunking *)

\* `if (chunks.length < 5 && content.length > 1000)`, on the paragraph chunks
Densifies(content, fileType) ==
    /\ TextLength(content) > DensifyLength
    /\ Len(SelectSeq(createChunks(1, content, fileType, 0),
                     LAMBDA chunk : chunk.chunkType = "paragraph")) < MinChunkCount

\* C18: when the sentence-group tier is triggered (fewer than 5 chunks and a
\* text of more than 1000 characters), every chunk of chunkType sentence-group
\* has a content of at most 500 characters, single long sentences included.
SentenceGroupCapped ==
    (ckResult.returned /\ Densifies(ckInput.content, ckInput.fileType)) =>
        \A i \in 1..Len(ckResult.chunks) :
            ckResult.chunks[i].chunkType = "sentence-group" =>
                TextLength(ckResult.chunks[i].content) <= SentenceGroupCap

\* C19: two calls of createChunks with the same documentId, text and
\* kind return identical ordered sequences of chunks.
RechunkingIdentical ==
    ckResult.repeated => ckResult.again = ckResult.chunks

----------------------------------------------------------------------------
(* The flagship model of the OpenAI listing *)

\* the ids of the models other than gpt-4o, in the order of the sequence
OtherIds(models) ==
    LET others == SelectSeq(models, LAMBDA model : model.id # Gpt4o)
    IN  [i \in 1..Len(others) |-> others[i].id]

\* the chat models of the listing the endpoint answered, newest first
ListedChatModels(response) == SortByCreated(SelectSeq(response.list, IsChatModel))

\* C21: for the OpenAI backend, whenever gpt-4o is among the chat models of the
\* listing, it is the first model fetchModels returns, wherever the listing put
\* it, and the other models keep their relative order.
FlagshipLeads ==
    (/\ llmCall.op = "fetchAvailableModels"
     /\ llmCall.backend = "openai"
     /\ ~ListingFailed(llmCall.response)
     /\ \E i \in 1..Len(llmCall.response.list) : llmCall.response.list[i].id = Gpt4o)
        => /\ llmCall.models[1].id = Gpt4o
           /\ Len(llmCall.models) = Len(ListedChatModels(llmCall.response))
           /\ OtherIds(llmCall.models) = OtherIds(ListedChatModels(llmCall.response))

\* gpt-4o is the oldest chat model of the listing, yet it leads
FlagshipLeadsWitness ==
    /\ llmCall.op = "fetchAvailableModels"
    /\ llmCall.backend = "openai"
    /\ ~ListingFailed(llmCall.response)
    /\ Len(llmCall.response.list) >= 3
    /\ llmCall.response.list[2].id = Gpt4o
    /\ ListedChatModels(llmCall.response)[3].id = Gpt4o
    /\ llmCall.models[1].id = Gpt4o
    /\ Len(llmCall.models) = 3

----------------------------------------------------------------------------
(* Densification *)

\* C22: densification re-chunks from scratch: when it is triggered (fewer than
\* 5 chunks and a text of more than 1000 characters), createChunks returns
\* sentence-group chunks only, none of the paragraph chunks made before is left.
DensifiedFromScratch ==
    (ckResult.returned /\ Densifies(ckInput.content, ckInput.fileType)) =>
        \A i \in 1..Len(ckResult.chunks) :
            ckResult.chunks[i].chunkType = "sentence-group"

----------------------------------------------------------------------------
(* One processFile run *)

\* the run has chunked the content it extracted
RunChunked == run.pc \in {"chunks.bulkPut", "embeddings.bulkPut", "resolved"}

\* C23: when the extraction of one PDF page fails, the content holds the error
\* placeholder of that page next to the text of the other pages, and chunking
\* makes no chunk of the placeholder: every chunk of the document comes from a
\* page that was extracted.
PlaceholderNotChunked ==
    (/\ RunChunked
     /\ run.file.kind = "pdf"
     /\ \E p \in 1..Len(run.file.pages) : run.file.pages[p].fails)
        => /\ \E k \in 1..Len(run.content) : run.content[k] = ErrorPlaceholder[1]
           /\ \A i \in 1..Len(run.chunks) :
                 /\ run.chunks[i].content # ErrorPlaceholder
                 /\ run.chunks[i].chunkType = "paragraph" =>
                       ~run.file.pages[run.chunks[i].pageNumber].fails

\* no page of the file gave a character that is not white space
NoPageText(file) ==
    \A p \in 1..Len(file.pages) :
        file.pages[p].fails \/ Trim(file.pages[p].text) = <<>>

\* C24: for a PDF with any number of pages, if no page yields non-whitespace
\* text (every page is empty or fails), extractTextFromPDF returns the fixed
\* sentinel as the content and does not raise.
SentinelForEmptyPdf ==
    (/\ run.pc \notin {"idle", "getPage", "getTextContent"} \cup LoadAwaits
     /\ run.file.kind = "pdf"
     /\ run.file.loads
     /\ NoPageText(run.file))
        => /\ run.error # "extract"
           /\ run.content = NoTextSentinel

\* the extraction of the text is over: it gave the content, or it failed
ExtractionOver == run.pc \notin {"idle", "getPage", "getTextContent"} \cup LoadAwaits

\* C29: if the extraction of the text fails, processFile rejects with that
\* error having written nothing: documents, chunks and embeddings are as before
\* the call, and the last progress report says isProcessing = false.
FailedExtractionWritesNothing ==
    /\ (ExtractionOver /\ ~run.file.loads) =>
          /\ run.pc = "rejected"
          /\ run.error = "extract"
    /\ (run.pc = "rejected" /\ run.error = "extract") =>
          /\ ~run.file.loads
          /\ documents = run.before.documents
          /\ chunks = run.before.chunks
          /\ embeddings = run.before.embeddings
          /\ ~run.reports[Len(run.reports)].isProcessing

\* the recognizer rejected for an image after a report of its logger, over a
\* store that held a document
FailedExtractionWitness ==
    /\ run.pc = "rejected"
    /\ run.error = "extract"
    /\ run.file.kind = "image"
    /\ DOMAIN documents = {1}
    /\ DOMAIN chunks = {1}
    /\ run.reports = <<Report(TRUE, 0), Report(TRUE, 20), Report(TRUE, 30),
                       Report(FALSE, 0)>>

\* what makes processFile reject: the extraction or a call of the store
PipelineFailures == {"extract"} \cup StoreCalls

----------------------------------------------------------------------------
(* Switching the provider *)

\* the ids of the models of a backend, as far as the model knows them
ModelsOfBackend(kind) ==
    IF kind = "openai" THEN {Gpt4o, Gpt4Turbo, Gpt35Turbo}
    ELSE IF kind = "gemini" THEN {Gemini15Flash, Gemini15Pro, Gemini10Pro}
    ELSE {}

\* C25: changing the active provider resets the active model: right after
\* setActiveProvider(p) no model is selected in the persisted settings, and the
\* provider object does not carry a model id chosen for another backend.
ProviderChangeResetsModel ==
    llmCall.op = "setActiveProvider" =>
        /\ localStorage.active_llm_model = <<>>
        /\ llmProvider.activeModel # <<>> =>
              llmProvider.activeModel \in ModelsOfBackend(llmProvider.kind)

\* C26: after any sequence of setter calls the provider object processQuery
\* will call is absent or is an instance of the backend getActiveProvider()
\* names; a switch to a provider without a stored key does not leave the
\* instance of the previous backend in use.
ProviderMatchesActive ==
    llmProvider.kind \in {"none", activeProvider}

----------------------------------------------------------------------------
(* The store after concurrent calls *)

\* no store call is in flight: every caller is before or after a call
Quiescent == \A t \in Tasks : tasks[t].pc \in {"idle", "addChunks", "addEmbeddings"}

\* C27: whatever the interleaving of concurrent mutating store calls, once all
\* of them have completed the store holds no chunk whose document is absent
\* and no embedding whose chunk is absent.
IntegrityWhenQuiescent ==
    Quiescent =>
        /\ \A c \in DOMAIN chunks : chunks[c].documentId \in DOMAIN documents
        /\ \A e \in DOMAIN embeddings : embeddings[e].chunkId \in DOMAIN chunks

\* document 1 was removed by one caller while the processFile of another had
\* stored it and was about to store its embeddings; no call is in flight and
\* the chunks of document 1 are gone
IntegrityWhenQuiescentWitness ==
    /\ Quiescent
    /\ \E t \in Tasks : tasks[t].pc = "addEmbeddings" /\ tasks[t].documentId = 1
    /\ 1 \notin DOMAIN documents
    /\ ChunksOf(1, chunks) = {}
    /\ documents # EmptyTable

----------------------------------------------------------------------------
(* The frame of the store calls *)

\* the returned call kept every record other than the targeted ones as it
\* found it: each document, each chunk whose document is stored at the return,
\* and each embedding whose chunk is stored at the return
Untouched(targetDocs, targetChunks, targetEmbeddings) ==
    /\ \A d \in DOMAIN lastCall.before.documents \ targetDocs :
          d \in DOMAIN documents /\ documents[d] = lastCall.before.documents[d]
    /\ \A c \in DOMAIN lastCall.before.chunks \ targetChunks :
          lastCall.before.chunks[c].documentId \in DOMAIN documents
              => c \in DOMAIN chunks /\ chunks[c] = lastCall.before.chunks[c]
    /\ \A e \in DOMAIN lastCall.before.embeddings \ targetEmbeddings :
          lastCall.before.embeddings[e].chunkId \in DOMAIN chunks
              => e \in DOMAIN embeddings
                 /\ embeddings[e] = lastCall.before.embeddings[e]

\* C28: in non-overlapping execution a mutating store call leaves untouched
\* every record it does not target: addDocument, addChunks and addEmbeddings
\* remove no document, no chunk whose document exists and no embedding whose
\* chunk exists, and removeDocument(D) removes nothing that belongs to a
\* document other than D.
StoreFrame ==
    NoCallInProgress =>
        /\ lastCall.op \in {"addDocument", "removeDocument"}
              => Untouched(lastCall.targets, {}, {})
        /\ lastCall.op = "addChunks" => Untouched({}, lastCall.targets, {})
        /\ lastCall.op = "addEmbeddings" => Untouched({}, {}, lastCall.targets)

\* removeDocument(D) returned for a D that owned a chunk with an embedding,
\* and a chunk and an embedding of another document are still stored
StoreFrameWitness ==
    /\ lastCall.op = "removeDocument"
    /\ NoCallInProgress
    /\ lastCall.documentId \in DOMAIN lastCall.before.documents
    /\ EmbeddingsOf(OwnedChunks, lastCall.before.embeddings) # {}
    /\ chunks # EmptyTable
    /\ embeddings # EmptyTable

====
